---- MODULE Spec2Model ----
(***************************************************************************)
(* GoStencil: the preset resolver (pkg/template merge.go, validator.go)    *)
(* and the MJPEG AVI writer (pkg/generator avi.go).                        *)
(*                                                                         *)
(* Go pointers and nilable slices are modelled as sequences of length at   *)
(* most one: <<>> is nil, <<v>> is a non-nil value v.  A Go map is a TLA+  *)
(* function whose DOMAIN is the key set.  float64 values are integers;     *)
(* the fractional geometry of a component is a numerator over FracDen.     *)
(***************************************************************************)
EXTENDS Integers, Sequences, FiniteSets, TLC

VARIABLES preset, data, resolved, warnings

\* AVIGenerator.Generate: its argument, its position, its locals, the output
\* file as the sequence of writes made to it, and its return value (loopI is
\* the counter i of its two loops).
VARIABLES config, pc, img, jpegData, avi, loopI, moviOffset, file, ret, writeFailed

\* Drawing primitives (pkg/template renderer): the destination image, the
\* image before the call, the call made, and the points handed to blendPixel.
VARIABLES dstImg, dstBefore, drawOp, blended

\* Renderer.wrapText: its arguments and the lines it returned.
VARIABLES wrapCall, wrapLines

\* The renderer: the files it can open, the preset and resolved components it
\* is given, the Renderer made, the steps RenderPreset drew and its error; and
\* a font manager and a face asked for directly.
VARIABLES files, scene, renderer, rendered, renderErr, fontMgr, gotFace

\* LoadPreset (loader.go): the archive being opened, the temporary directory
\* (Nil while it does not exist, else the set of paths extracted into it), the
\* paths written outside it, the position of LoadPreset's caller, and what
\* LoadPreset returned.
VARIABLES zipFile, tmpDir, escaped, loadPc, loadRet

\* The web editor (app.js): the editors' content, the pending debounce timer,
\* the isRendering flag, the content of the request in flight, what the
\* preview shows, and the number of edits made so far.
VARIABLES editorValue, renderTimeout, isRendering, inFlight, previewImg, edits

\* The web server (RunServe): each render request's position, the temp copy
\* of the uploaded asset, each request's write offset, and what each read.
VARIABLES reqPc, tmpFile, reqOff, seen

mergeVars == <<preset, data, resolved, warnings>>

aviVars == <<config, pc, img, jpegData, avi, loopI, moviOffset, file, ret, writeFailed>>

drawVars == <<dstImg, dstBefore, drawOp, blended>>

wrapVars == <<wrapCall, wrapLines>>

renderVars == <<files, scene, renderer, rendered, renderErr, fontMgr, gotFace>>

loadVars == <<zipFile, tmpDir, escaped, loadPc, loadRet>>

editVars == <<editorValue, renderTimeout, isRendering, inFlight, previewImg, edits>>

serveVars == <<reqPc, tmpFile, reqOff, seen>>

hostVars == <<loadVars, editVars, serveVars>>

vars == <<mergeVars, aviVars, drawVars, wrapVars, renderVars, hostVars>>

\* What the resolver, the AVI writer, the drawing primitives, wrapText and
\* the renderer leave alone.
notMergeVars == <<aviVars, drawVars, wrapVars, renderVars, hostVars>>

notAviVars == <<mergeVars, drawVars, wrapVars, renderVars, hostVars>>

notDrawVars == <<mergeVars, aviVars, wrapVars, renderVars, hostVars>>

notWrapVars == <<mergeVars, aviVars, drawVars, renderVars, hostVars>>

notRenderVars == <<mergeVars, aviVars, drawVars, wrapVars, hostVars>>

coreVars == <<mergeVars, aviVars, drawVars, wrapVars, renderVars>>

notLoadVars == <<coreVars, editVars, serveVars>>

notEditVars == <<coreVars, loadVars, serveVars>>

notServeVars == <<coreVars, loadVars, editVars>>

\* ---------------------------------------------------------------- bounds
\* Most components in a preset.
MaxComps == 3

\* zIndex values range over 0..MaxZ.
MaxZ == 1

\* Fractions are multiples of 1/FracDen.  FracDen is a power of two, so
\* fraction * float64(dimension) is exact in float64 and int() of it is the
\* truncation of the exact quotient.
FracDen == 8

\* ---------------------------------------------------------------- helpers
Nil == <<>>

Some(v) == <<v>>

Max(a, b) == IF a >= b THEN a ELSE b

\* Variant: rounding to the nearest integer instead of truncating.
RoundDiv(n, d) == IF n >= 0 THEN (2 * n + d) \div (2 * d) ELSE -((2 * (-n) + d) \div (2 * d))

\* Go's int(f) for a float64 f = n / d: truncation toward zero.
TruncDiv(n, d) == IF n >= 0 THEN n \div d ELSE -((-n) \div d)

\* int(frac * float64(dim)), frac = num / FracDen.
FracToPx(num, dim) == TruncDiv(num * dim, FracDen)

\* ---------------------------------------------------------------- types
StrFields == {"BackgroundColor", "BackgroundImage", "BackgroundFit", "BorderColor", "FontPath", "Color", "TextAlign"}

NumFields == {"BorderWidth", "CornerRadius", "FontSize", "LineHeight"}

ComponentStyle(bg, bgImage, fit, bc, bw, cr, fp, fs, col, lh, ta) ==
  [BackgroundColor |-> bg, BackgroundImage |-> bgImage, BackgroundFit |-> fit,
   BorderColor |-> bc, BorderWidth |-> bw, CornerRadius |-> cr,
   FontPath |-> fp, FontSize |-> fs, Color |-> col, LineHeight |-> lh,
   TextAlign |-> ta]

ZeroStyle == ComponentStyle("", "", "", "", 0, 0, "", 0, "", 0, "")

ComponentData(vis, title, items, style) ==
  [Visible |-> vis, Title |-> title, Items |-> items, Style |-> style]

ZeroData == ComponentData(Nil, "", Nil, Nil)

TextItem(type, text) == [Type |-> type, Text |-> text]

\* ---------------------------------------------------------------- merge.go
\* mergeComponentStyle applies the override's fields onto base.
mergeComponentStyle(base, over) ==
  [BackgroundColor |-> IF over.BackgroundColor # "" THEN over.BackgroundColor ELSE base.BackgroundColor,
   BackgroundImage |-> IF over.BackgroundImage # "" THEN over.BackgroundImage ELSE base.BackgroundImage,
   BackgroundFit   |-> IF over.BackgroundFit # "" THEN over.BackgroundFit ELSE base.BackgroundFit,
   BorderColor     |-> IF over.BorderColor # "" THEN over.BorderColor ELSE base.BorderColor,
   BorderWidth     |-> IF over.BorderWidth > 0 THEN over.BorderWidth ELSE base.BorderWidth,
   CornerRadius    |-> IF over.CornerRadius > 0 THEN over.CornerRadius ELSE base.CornerRadius,
   FontPath        |-> IF over.FontPath # "" THEN over.FontPath ELSE base.FontPath,
   FontSize        |-> IF over.FontSize > 0 THEN over.FontSize ELSE base.FontSize,
   Color           |-> IF over.Color # "" THEN over.Color ELSE base.Color,
   LineHeight      |-> IF over.LineHeight > 0 THEN over.LineHeight ELSE base.LineHeight,
   TextAlign       |-> IF over.TextAlign # "" THEN over.TextAlign ELSE base.TextAlign]

\* Variant: an override list replaces the default only when it has entries.
mergeComponentData_NonEmptyItems(base, over) ==
  [Visible |-> IF over.Visible # Nil THEN over.Visible ELSE base.Visible,
   Title   |-> IF over.Title # "" THEN over.Title ELSE base.Title,
   Items   |-> IF over.Items # Nil /\ Len(over.Items[1]) > 0 THEN over.Items ELSE base.Items,
   Style   |-> IF over.Style # Nil THEN over.Style ELSE base.Style]

\* mergeComponentData overlays the override onto a copy of the defaults.
mergeComponentData(base, over) ==
  [Visible |-> IF over.Visible # Nil THEN over.Visible ELSE base.Visible,
   Title   |-> IF over.Title # "" THEN over.Title ELSE base.Title,
   Items   |-> IF over.Items # Nil THEN over.Items ELSE base.Items,
   Style   |-> IF over.Style # Nil THEN over.Style ELSE base.Style]

\* merged := comp.Defaults, then the override for comp.ID when data has one.
MergedData(comp, d) ==
  IF d # Nil /\ comp.ID \in DOMAIN d[1].Components
    THEN mergeComponentData(comp.Defaults, d[1].Components[comp.ID])
    ELSE comp.Defaults

\* Variant: an unset visibility hides the component.
Hidden_UnsetHides(merged) == merged.Visible = Nil \/ ~merged.Visible[1]

\* merged.Visible != nil && !*merged.Visible
Hidden(merged) == merged.Visible # Nil /\ ~merged.Visible[1]

\* finalStyle := comp.Style, overlaid with merged.Style when it is non-nil.
FinalStyle(comp, merged) ==
  IF merged.Style # Nil THEN mergeComponentStyle(comp.Style, merged.Style[1]) ELSE comp.Style

\* Variant: the padding grows with the merged style's border width.
Resolve_PadByBorder(p, comp, merged) ==
  [ID      |-> comp.ID,
   X       |-> FracToPx(comp.X, p.Canvas.Width),
   Y       |-> FracToPx(comp.Y, p.Canvas.Height),
   Width   |-> FracToPx(comp.Width, p.Canvas.Width),
   Height  |-> FracToPx(comp.Height, p.Canvas.Height),
   ZIndex  |-> comp.ZIndex,
   Padding |-> Max(comp.Padding, 0) + FinalStyle(comp, merged).BorderWidth,
   Style   |-> FinalStyle(comp, merged),
   Data    |-> merged]

\* The ResolvedComponent appended for a surviving component.
Resolve(p, comp, merged) ==
  [ID      |-> comp.ID,
   X       |-> FracToPx(comp.X, p.Canvas.Width),
   Y       |-> FracToPx(comp.Y, p.Canvas.Height),
   Width   |-> FracToPx(comp.Width, p.Canvas.Width),
   Height  |-> FracToPx(comp.Height, p.Canvas.Height),
   ZIndex  |-> comp.ZIndex,
   Padding |-> Max(comp.Padding, 0),
   Style   |-> FinalStyle(comp, merged),
   Data    |-> merged]

\* The loop of MergeData over preset.Components[1..n], in declaration order.
RECURSIVE MergeLoop(_, _, _)
MergeLoop(p, d, n) ==
  IF n = 0 THEN <<>>
  ELSE LET comp   == p.Components[n]
           merged == MergedData(comp, d)
           before == MergeLoop(p, d, n - 1)
       IN IF Hidden(merged) THEN before
          ELSE Append(before, Resolve(p, comp, merged))

\* Variant: less-or-equal as the sort's less function.
Less_OrEqual(a, b) == a.ZIndex <= b.ZIndex

\* less(i, j) of the sort: result[i].ZIndex < result[j].ZIndex
Less(a, b) == a.ZIndex < b.ZIndex

\* Insert x after every element of the sorted s that is not greater than x.
RECURSIVE InsertStable(_, _)
InsertStable(s, x) ==
  IF s = <<>> THEN <<x>>
  ELSE IF Less(x, s[Len(s)]) THEN Append(InsertStable(SubSeq(s, 1, Len(s) - 1), x), s[Len(s)])
  ELSE Append(s, x)

\* sort.SliceStable(result, less)
RECURSIVE SliceStable(_)
SliceStable(s) ==
  IF s = <<>> THEN <<>>
  ELSE InsertStable(SliceStable(SubSeq(s, 1, Len(s) - 1)), s[Len(s)])

MergeData(p, d) == SliceStable(MergeLoop(p, d, Len(p.Components)))

\* ---------------------------------------------------------------- validator.go
\* The IDs of the preset's components (the `known` set).
Known(p) == {p.Components[i].ID : i \in 1..Len(p.Components)}

\* Variant: the membership test of the known set is inverted.
UnknownKeys_Inverted(d, p) == IF d = Nil THEN {} ELSE {id \in DOMAIN d[1].Components : id \in Known(p)}

\* The override keys ValidateData warns about.
UnknownKeys(d, p) == IF d = Nil THEN {} ELSE {id \in DOMAIN d[1].Components : id \notin Known(p)}

Warning(id) == <<"data references unknown component", id, "ignored">>

\* Every order in which the range over the map can visit the keys of S.
Orders(S) == {f \in [1..Cardinality(S) -> S] : \A i, j \in 1..Cardinality(S) : f[i] = f[j] => i = j}

\* The possible return values of ValidateData: one warning per unknown key,
\* in map iteration order.
ValidateData(d, p) == {[i \in 1..Cardinality(UnknownKeys(d, p)) |-> Warning(o[i])] : o \in Orders(UnknownKeys(d, p))}

\* ---------------------------------------------------------------- uint32
\* A number is a pair <<hi, lo>> standing for hi * 2^16 + lo, 0 <= lo < 2^16.
\* A uint32 is such a pair with hi < 2^16; values that do not fit 32 bits
\* (byte counts of a large file) have a larger hi.
Half == 65536

\* The pair of a non-negative integer.
W(n) == <<n \div Half, n % Half>>

WAdd(a, b) == <<a[1] + b[1] + ((a[2] + b[2]) \div Half), (a[2] + b[2]) % Half>>

WLess(a, b) == a[1] < b[1] \/ (a[1] = b[1] /\ a[2] < b[2])

\* Truncation to 32 bits.
Wrap32(a) == <<a[1] % Half, a[2]>>

\* Go's uint32(n) of an int n: n modulo 2^32.
U32(n) ==
  IF n >= 0 THEN Wrap32(W(n))
  ELSE <<(Half - 1) - ((((-n) - 1) \div Half) % Half), (Half - 1) - (((-n) - 1) % Half)>>

\* uint32 addition (wraps).
U32Add(a, b) == Wrap32(WAdd(a, b))

\* x * y of two 16-bit halves, as a pair.
Mul16(x, y) ==
  LET p1 == x * (y \div 256)
      p0 == x * (y % 256)
  IN WAdd(<<p1 \div 256, (p1 % 256) * 256>>, W(p0))

\* uint32 multiplication (wraps).
U32Mul(a, b) ==
  LET low   == Mul16(a[2], b[2])
      cross == (Mul16(a[1], b[2])[2] + Mul16(a[2], b[1])[2]) % Half
  IN Wrap32(<<low[1] + cross, low[2]>>)

\* uint16(v) of a uint32 v.
U16(a) == a[2]

\* ---------------------------------------------------------------- avi.go
\* fps := uint32(15)
fps == 15

\* Default size of the solid-colour image.
DefaultWidth == 1280

DefaultHeight == 720

\* jpeg.Encode rejects images wider or taller than 1<<16 - 1.
MaxJPEGDim == 65535

\* The writes: a FourCC, a little-endian uint32 or uint16, the JPEG bytes, the
\* zero pad byte.
FourCC(s) == [kind |-> "fourcc", tag |-> s]

Uint32(v) == [kind |-> "u32", v |-> v]

Uint16(v) == [kind |-> "u16", v |-> v]

Bytes(n) == [kind |-> "jpegData", n |-> n]

ZeroByte == [kind |-> "zero", n |-> 1]

\* Number of bytes a write puts into the file.
Size(t) ==
  CASE t.kind = "fourcc" -> 4
    [] t.kind = "u32" -> 4
    [] t.kind = "u16" -> 2
    [] OTHER -> t.n

\* 1. Prepare source image: the bounds of config.SourceImage, or of a solid
\* colour image of config.Width x config.Height (1280 x 720 when not set).
SourceBounds(c) ==
  IF c.SourceImage # Nil THEN c.SourceImage[1]
  ELSE [Dx |-> IF c.Width <= 0 THEN DefaultWidth ELSE c.Width,
        Dy |-> IF c.Height <= 0 THEN DefaultHeight ELSE c.Height]

\* Colours parseColor accepts.
ValidColors == {"", "random", "#1a1a2e"}

\* durationSec: uint32(config.Duration), 1 when that is below 1.
DurationSec(c) == IF WLess(U32(c.Duration), W(1)) THEN W(1) ELSE U32(c.Duration)

\* 2.-3. The sizes computed from the encoded JPEG of n bytes.
Configure(c, bounds, n) ==
  LET jpegSize       == U32(n)
      paddedJPEGSize == IF jpegSize[2] % 2 # 0 THEN U32Add(jpegSize, W(1)) ELSE jpegSize
      totalFrames    == U32Mul(DurationSec(c), W(fps))
      frameChunkSize == U32Add(W(8), paddedJPEGSize)
      moviSize       == U32Add(W(4), U32Mul(totalFrames, frameChunkSize))
      idx1Size       == U32Add(W(8), U32Mul(totalFrames, W(16)))
      hdrlSize       == U32(4 + 64 + 124)
  IN [jpegSize |-> jpegSize, paddedJPEGSize |-> paddedJPEGSize,
      width |-> U32(bounds.Dx), height |-> U32(bounds.Dy),
      microSecPerFrame |-> U32(1000000 \div fps),
      totalFrames |-> totalFrames, frameChunkSize |-> frameChunkSize,
      moviSize |-> moviSize, idx1Size |-> idx1Size, hdrlSize |-> hdrlSize,
      fileSize |-> U32Add(U32Add(U32Add(W(4), U32Add(W(8), hdrlSize)), U32Add(W(8), moviSize)), idx1Size)]

\* uint32(float64(jpegSize) * float64(fps)): exact when the product fits 32
\* bits; out of range the conversion is implementation-specific (wraps or
\* saturates).
MaxBytesPerSec(jpegSize) ==
  LET exact == <<jpegSize[1] * fps + ((jpegSize[2] * fps) \div Half), (jpegSize[2] * fps) % Half>>
  IN IF exact[1] < Half THEN {exact} ELSE {Wrap32(exact), <<Half - 1, Half - 1>>}

\* RIFF header, hdrl LIST (avih, strl LIST with strh and strf), movi LIST header.
Headers(a, maxBytesPerSec) ==
  << FourCC("RIFF"), Uint32(a.fileSize), FourCC("AVI "),
     FourCC("LIST"), Uint32(a.hdrlSize), FourCC("hdrl"),
     FourCC("avih"), Uint32(W(56)),
       Uint32(a.microSecPerFrame), Uint32(maxBytesPerSec), Uint32(W(0)), Uint32(W(16)),
       Uint32(a.totalFrames), Uint32(W(0)), Uint32(W(1)), Uint32(a.jpegSize),
       Uint32(a.width), Uint32(a.height), Uint32(W(0)), Uint32(W(0)), Uint32(W(0)), Uint32(W(0)),
     FourCC("LIST"), Uint32(W(116)), FourCC("strl"),
     FourCC("strh"), Uint32(W(56)),
       FourCC("vids"), FourCC("MJPG"), Uint32(W(0)), Uint16(0), Uint16(0), Uint32(W(0)),
       Uint32(W(1)), Uint32(W(fps)), Uint32(W(0)), Uint32(a.totalFrames), Uint32(a.jpegSize),
       Uint32(W(0)), Uint32(W(0)), Uint16(0), Uint16(0), Uint16(U16(a.width)), Uint16(U16(a.height)),
     FourCC("strf"), Uint32(W(40)),
       Uint32(W(40)), Uint32(a.width), Uint32(a.height), Uint16(1), Uint16(24), FourCC("MJPG"),
       Uint32(U32Mul(U32Mul(a.width, a.height), W(3))), Uint32(W(0)), Uint32(W(0)), Uint32(W(0)), Uint32(W(0)),
     FourCC("LIST"), Uint32(a.moviSize), FourCC("movi") >>

\* One pass of the frame loop: the 00dc chunk of a frame.
FrameChunk(a, n) ==
  <<FourCC("00dc"), Uint32(a.jpegSize), Bytes(n)>> \o (IF a.jpegSize[2] % 2 # 0 THEN <<ZeroByte>> ELSE <<>>)

\* One pass of the index loop: the idx1 entry of a frame.
IndexEntry(a, offset) == <<FourCC("00dc"), Uint32(W(16)), Uint32(offset), Uint32(a.jpegSize)>>

\* ---------------------------------------------------------------- inputs
IDs == <<"header", "footer", "body", "aside", "extra">>

\* Override keys that name no component ("// id" is how the editor comments
\* an override out).
UnknownIDs == {"ghost", "// header"}

Component(id, rect, z, pad, style, defaults) ==
  [ID |-> id, X |-> rect[1], Y |-> rect[2], Width |-> rect[3], Height |-> rect[4],
   ZIndex |-> z, Padding |-> pad, Style |-> style, Defaults |-> defaults]

\* Style of a loaded preset component (applyComponentDefaults has run).
BaseStyle == ComponentStyle("#112233", "", "", "", 0, 0, "", 24, "#ffffff", 15, "left")

\* A preset style with every field set.
FullStyle == ComponentStyle("#000000", "bg.png", "cover", "#ff0000", 2, 8, "a.ttf", 32, "#eeeeee", 12, "center")

\* An override style with every field set.
OverStyle == ComponentStyle("#0a0a0a", "over.png", "contain", "#00ff00", 5, 3, "b.ttf", 48, "#cccccc", 20, "right")

\* Override styles: nothing set, everything set, exactly one field set
\* (numbers: positive and negative).
OverrideStyles ==
  {ZeroStyle, OverStyle}
  \cup {[ZeroStyle EXCEPT ![f] = OverStyle[f]] : f \in StrFields \cup NumFields}
  \cup {[ZeroStyle EXCEPT ![f] = -2] : f \in NumFields}

Items1 == <<TextItem("bullet", "first"), TextItem("text", "second")>>

Items2 == <<TextItem("numbered", "other")>>

\* Defaults a preset bakes into a component.
DefaultsChoices ==
  {ZeroData,
   ComponentData(Some(TRUE), "Default title", Some(Items1), Nil),
   ComponentData(Nil, "", Some(<<>>), Some(FullStyle)),
   ComponentData(Some(TRUE), "Default title", Some(Items1), Some([ZeroStyle EXCEPT !.FontSize = 40, !.Color = "#abcdef"]))}

\* Overrides of visibility and content.
BasicOverrides ==
  {ZeroData,
   ComponentData(Some(FALSE), "", Nil, Nil),
   ComponentData(Some(TRUE), "Override title", Some(Items2), Nil),
   ComponentData(Nil, "", Some(<<>>), Nil)}

\* Overrides that carry a style object.
StyleOverrides == {ComponentData(Nil, "", Nil, Some(s)) : s \in OverrideStyles}

HalfRect(i) == <<0, ((i - 1) % 2) * (FracDen \div 2), FracDen, FracDen \div 2>>

\* Rectangles (numerators over FracDen) with a padding.
RectChoices ==
  {<<<<0, 0, FracDen, FracDen \div 2>>, 0>>,
   <<<<1, 3, 5, 7>>, 4>>,
   <<<<-1, -3, FracDen + 1, 2>>, -1>>}

CanvasChoices == {[Width |-> 1000, Height |-> 1000], [Width |-> 1280, Height |-> 720], [Width |-> 3, Height |-> 5]}

Preset(canvas, comps) == [Canvas |-> canvas, Components |-> comps]

\* Presets that vary the declaration count, the zIndex values and the
\* default visibility.
OrderPresets ==
  UNION {{Preset([Width |-> 1000, Height |-> 1000],
                 [i \in 1..n |-> Component(IDs[i], HalfRect(i), z[i], 0, BaseStyle,
                    ComponentData(IF i \in hid THEN Some(FALSE) ELSE Nil, "Default title", Nil, Nil))]) :
            z \in [1..n -> 0..MaxZ], hid \in SUBSET (1..n)} : n \in 1..MaxComps}

\* Presets of a header over a footer that vary the canvas and the header's
\* geometry, padding, style and defaults.
DetailPresets ==
  {Preset(c, <<Component("header", rc[1], 0, rc[2], st, df),
               Component("footer", HalfRect(2), MaxZ, 0, BaseStyle, ZeroData)>>) :
     c \in CanvasChoices, rc \in RectChoices, st \in {BaseStyle, FullStyle}, df \in DefaultsChoices}

Presets == OrderPresets \cup DetailPresets

\* Most keys in an override map of visibility and content overrides.
MaxKeys == 2

\* Keys an override map may use: the first two component IDs and the unknown ones.
OverrideKeys(p) == {p.Components[i].ID : i \in 1..Len(p.Components) \cap 1..2} \cup UnknownIDs

OverrideMaps(p) ==
  UNION {[K -> BasicOverrides] : K \in {K \in SUBSET OverrideKeys(p) : Cardinality(K) <= MaxKeys}}
  \cup UNION {[{k} -> StyleOverrides] : k \in {"header", "ghost"}}

DataSpec(m) == [Components |-> m]

\* The data argument: nil, or a DataSpec.
DataChoices(p) == {Nil} \cup {Some(DataSpec(m)) : m \in OverrideMaps(p)}

\* ---------------------------------------------------------------- avi.go: Generate
\* Largest duration (seconds) a caller asks for; the smallest is -1.
MaxDuration == 2

\* Size in bytes of a large encoded frame.
LargeFrame == 400000000

\* The frame and index loops are followed for at most MaxFrames passes.
MaxFrames == MaxDuration * fps

\* Sizes in bytes jpeg.Encode may produce.
FrameSizes == {1, 2, 7, LargeFrame}

Config(image, w, h, d, color) ==
  [SourceImage |-> image, Width |-> w, Height |-> h, Duration |-> d, Color |-> color]

Bounds(dx, dy) == [Dx |-> dx, Dy |-> dy]

Configs ==
  {Config(im, 0, 0, d, "") : im \in {Some(Bounds(1, 1)), Some(Bounds(1280, 720)), Some(Bounds(70000, 1))},
                             d \in -1..MaxDuration}
  \cup {Config(Nil, wh[1], wh[2], d, col) : wh \in {<<0, 0>>, <<64, -5>>}, d \in -1..MaxDuration,
                                            col \in {"random", "#1a1a2e", "red"}}

\* No drawing primitive is running.
DrawIdle == dstImg = <<>> /\ dstBefore = <<>> /\ drawOp = <<>> /\ blended = {}

\* wrapText is not running.
WrapIdle == wrapCall = <<>> /\ wrapLines = <<>>

\* No renderer is in use.
RenderIdle ==
  /\ files = <<>> /\ scene = <<>> /\ renderer = <<>> /\ rendered = <<>> /\ renderErr = <<>>
  /\ fontMgr = <<>> /\ gotFace = <<>>

\* LoadPreset is not running.
LoadIdle ==
  /\ zipFile = <<>> /\ tmpDir = <<>> /\ escaped = {} /\ loadPc = "idle"
  /\ loadRet = <<>>

\* No editor page is open.
EditIdle ==
  /\ editorValue = <<>> /\ renderTimeout = <<>> /\ isRendering = FALSE
  /\ inFlight = <<>> /\ previewImg = <<>> /\ edits = 0

\* The server handles no request.
ServeIdle == reqPc = <<>> /\ tmpFile = <<>> /\ reqOff = <<>> /\ seen = <<>>

\* Neither LoadPreset, nor the editor page, nor the server is running.
HostIdle == LoadIdle /\ EditIdle /\ ServeIdle

\* The generator is not running.
AviIdle ==
  /\ config = Config(Nil, 0, 0, 0, "")
  /\ pc = "idle"
  /\ img = Nil /\ jpegData = Nil /\ avi = Nil
  /\ loopI = W(0) /\ moviOffset = W(0)
  /\ file = Nil /\ ret = Nil /\ writeFailed = FALSE

\* The resolver is not running.
MergeIdle ==
  /\ preset = Preset([Width |-> DefaultWidth, Height |-> DefaultHeight], <<>>)
  /\ data = Nil /\ resolved = Nil /\ warnings = Nil

InitAvi ==
  /\ config \in Configs
  /\ pc = "start"
  /\ img = Nil /\ jpegData = Nil /\ avi = Nil
  /\ loopI = W(0) /\ moviOffset = W(0)
  /\ file = Nil /\ ret = Nil /\ writeFailed = FALSE
  /\ MergeIdle /\ DrawIdle /\ WrapIdle /\ RenderIdle /\ HostIdle

\* 1. Prepare source image.
PrepareImage ==
  /\ pc = "start"
  /\ IF config.SourceImage = Nil /\ config.Color \notin ValidColors
       THEN /\ ret' = Some("parseColor error")
            /\ pc' = "returned"
            /\ UNCHANGED img
       ELSE /\ img' = Some(SourceBounds(config))
            /\ pc' = "encode"
            /\ UNCHANGED ret
  /\ UNCHANGED <<config, writeFailed, jpegData, avi, loopI, moviOffset, file>>
  /\ UNCHANGED notAviVars

\* 2. Encode to JPEG, 3. configure video and calculate sizes.
Encode ==
  /\ pc = "encode"
  /\ IF img[1].Dx > MaxJPEGDim \/ img[1].Dy > MaxJPEGDim
       THEN /\ ret' = Some("failed to encode JPEG")
            /\ pc' = "returned"
            /\ UNCHANGED <<jpegData, avi>>
       ELSE /\ \E n \in FrameSizes :
                 /\ jpegData' = Some(n)
                 /\ avi' = Some(Configure(config, img[1], n))
            /\ pc' = "create"
            /\ UNCHANGED ret
  /\ UNCHANGED <<config, writeFailed, img, loopI, moviOffset, file>>
  /\ UNCHANGED notAviVars

\* 4. Create file.
Create ==
  /\ pc = "create"
  /\ file' = Some(<<>>)
  /\ pc' = "headers"
  /\ UNCHANGED <<config, writeFailed, img, jpegData, avi, loopI, moviOffset, ret>>
  /\ UNCHANGED notAviVars

\* os.Create fails.
CreateFails ==
  /\ pc = "create"
  /\ ret' = Some("failed to create output file")
  /\ pc' = "returned"
  /\ UNCHANGED <<config, writeFailed, img, jpegData, avi, loopI, moviOffset, file>>
  /\ UNCHANGED notAviVars

\* RIFF header through the movi LIST header.
WriteHeaders ==
  /\ pc = "headers"
  /\ \E m \in MaxBytesPerSec(avi[1].jpegSize) : file' = Some(file[1] \o Headers(avi[1], m))
  /\ loopI' = W(0)
  /\ pc' = "frames"
  /\ UNCHANGED <<config, writeFailed, img, jpegData, avi, moviOffset, ret>>
  /\ UNCHANGED notAviVars

\* Write video frames: one pass of the loop.
WriteFrame ==
  /\ pc = "frames"
  /\ WLess(loopI, avi[1].totalFrames)
  /\ WLess(loopI, W(MaxFrames))
  /\ file' = Some(file[1] \o FrameChunk(avi[1], jpegData[1]))
  /\ loopI' = U32Add(loopI, W(1))
  /\ UNCHANGED <<config, writeFailed, pc, img, jpegData, avi, moviOffset, ret>>
  /\ UNCHANGED notAviVars

\* The frame loop ends; the idx1 tag and size are written.
WriteIndexHeader ==
  /\ pc = "frames"
  /\ ~WLess(loopI, avi[1].totalFrames)
  /\ file' = Some(file[1] \o <<FourCC("idx1"), Uint32(U32Mul(avi[1].totalFrames, W(16)))>>)
  /\ moviOffset' = U32(4)
  /\ loopI' = W(0)
  /\ pc' = "index"
  /\ UNCHANGED <<config, writeFailed, img, jpegData, avi, ret>>
  /\ UNCHANGED notAviVars

\* One pass of the index loop.
WriteIndexEntry ==
  /\ pc = "index"
  /\ WLess(loopI, avi[1].totalFrames)
  /\ WLess(loopI, W(MaxFrames))
  /\ file' = Some(file[1] \o IndexEntry(avi[1], moviOffset))
  /\ moviOffset' = U32Add(moviOffset, avi[1].frameChunkSize)
  /\ loopI' = U32Add(loopI, W(1))
  /\ UNCHANGED <<config, writeFailed, pc, img, jpegData, avi, ret>>
  /\ UNCHANGED notAviVars

\* return f.Sync()
Sync ==
  /\ pc = "index"
  /\ ~WLess(loopI, avi[1].totalFrames)
  /\ \E r \in {"nil", "sync error"} : ret' = Some(r)
  /\ pc' = "returned"
  /\ UNCHANGED <<config, writeFailed, img, jpegData, avi, loopI, moviOffset, file>>
  /\ UNCHANGED notAviVars

NextAvi ==
  \/ PrepareImage
  \/ Encode
  \/ Create
  \/ CreateFails
  \/ WriteHeaders
  \/ WriteFrame
  \/ WriteIndexHeader
  \/ WriteIndexEntry
  \/ Sync

SpecAvi == InitAvi /\ [][NextAvi]_vars

\* ---------------------------------------------------------------- avi.go: failing writes
\* The writes ws with the k-th one failing: f.Write returns an error that
\* writeFourCC, writeUint32, writeUint16 and the frame loop drop, the bytes
\* of that write do not reach the file, and the writes after it go on.
DropAt(ws, k) == SubSeq(ws, 1, k - 1) \o SubSeq(ws, k + 1, Len(ws))

\* A write of the headers fails.
WriteHeadersFails ==
  /\ pc = "headers"
  /\ ~writeFailed
  /\ \E m \in MaxBytesPerSec(avi[1].jpegSize) : \E k \in 1..Len(Headers(avi[1], m)) :
       file' = Some(file[1] \o DropAt(Headers(avi[1], m), k))
  /\ writeFailed' = TRUE
  /\ loopI' = W(0)
  /\ pc' = "frames"
  /\ UNCHANGED <<config, img, jpegData, avi, moviOffset, ret>>
  /\ UNCHANGED notAviVars

\* A write of one pass of the frame loop fails.
WriteFrameFails ==
  /\ pc = "frames"
  /\ ~writeFailed
  /\ WLess(loopI, avi[1].totalFrames)
  /\ WLess(loopI, W(MaxFrames))
  /\ \E k \in 1..Len(FrameChunk(avi[1], jpegData[1])) :
       file' = Some(file[1] \o DropAt(FrameChunk(avi[1], jpegData[1]), k))
  /\ writeFailed' = TRUE
  /\ loopI' = U32Add(loopI, W(1))
  /\ UNCHANGED <<config, pc, img, jpegData, avi, moviOffset, ret>>
  /\ UNCHANGED notAviVars

\* The write of the idx1 tag or of its size fails.
WriteIndexHeaderFails ==
  /\ pc = "frames"
  /\ ~writeFailed
  /\ ~WLess(loopI, avi[1].totalFrames)
  /\ \E k \in 1..2 :
       file' = Some(file[1] \o DropAt(<<FourCC("idx1"), Uint32(U32Mul(avi[1].totalFrames, W(16)))>>, k))
  /\ writeFailed' = TRUE
  /\ moviOffset' = U32(4)
  /\ loopI' = W(0)
  /\ pc' = "index"
  /\ UNCHANGED <<config, img, jpegData, avi, ret>>
  /\ UNCHANGED notAviVars

\* A write of one pass of the index loop fails.
WriteIndexEntryFails ==
  /\ pc = "index"
  /\ ~writeFailed
  /\ WLess(loopI, avi[1].totalFrames)
  /\ WLess(loopI, W(MaxFrames))
  /\ \E k \in 1..Len(IndexEntry(avi[1], moviOffset)) :
       file' = Some(file[1] \o DropAt(IndexEntry(avi[1], moviOffset), k))
  /\ writeFailed' = TRUE
  /\ moviOffset' = U32Add(moviOffset, avi[1].frameChunkSize)
  /\ loopI' = U32Add(loopI, W(1))
  /\ UNCHANGED <<config, pc, img, jpegData, avi, ret>>
  /\ UNCHANGED notAviVars

\* Callers of the failing-disk runs: durations 0 and 1.
InitAviIO == InitAvi /\ config.Duration \in 0..1

NextAviIO ==
  \/ NextAvi
  \/ WriteHeadersFails
  \/ WriteFrameFails
  \/ WriteIndexHeaderFails
  \/ WriteIndexEntryFails

SpecAviIO == InitAviIO /\ [][NextAviIO]_vars

\* ---------------------------------------------------------------- resolver
InitMerge ==
  /\ preset \in Presets
  /\ data \in DataChoices(preset)
  /\ resolved = Nil
  /\ warnings = Nil
  /\ AviIdle /\ DrawIdle /\ WrapIdle /\ RenderIdle /\ HostIdle

\* components := template.MergeData(preset, data)
Merge ==
  /\ resolved = Nil
  /\ resolved' = Some(MergeData(preset, data))
  /\ UNCHANGED <<preset, data, warnings>>
  /\ UNCHANGED notMergeVars

\* template.ValidateData(data, preset)
Validate ==
  /\ warnings = Nil
  /\ \E w \in ValidateData(data, preset) : warnings' = Some(w)
  /\ UNCHANGED <<preset, data, resolved>>
  /\ UNCHANGED notMergeVars

NextMerge == Merge \/ Validate

SpecMerge == InitMerge /\ [][NextMerge]_vars

\* ---------------------------------------------------------------- renderer: images
\* image.Rectangle, image.Point and color.RGBA as records; an *image.RGBA as
\* its Rect and its pixels: Pix maps the points of the backing buffer to
\* colors, and a sub-image shares the buffer of the image it was taken from.
Min(a, b) == IF a <= b THEN a ELSE b

Point(x, y) == <<x, y>>

\* image.Rect: the corners are put in order.
Rect(x0, y0, x1, y1) ==
  [Min |-> [X |-> Min(x0, x1), Y |-> Min(y0, y1)], Max |-> [X |-> Max(x0, x1), Y |-> Max(y0, y1)]]

Dx(r) == r.Max.X - r.Min.X

Dy(r) == r.Max.Y - r.Min.Y

Empty(r) == r.Min.X >= r.Max.X \/ r.Min.Y >= r.Max.Y

\* Point.In
In(x, y, r) == r.Min.X <= x /\ x < r.Max.X /\ r.Min.Y <= y /\ y < r.Max.Y

\* Rectangle.Intersect: an empty intersection is the zero rectangle.
Intersect(r, s) ==
  LET t == [Min |-> [X |-> Max(r.Min.X, s.Min.X), Y |-> Max(r.Min.Y, s.Min.Y)],
            Max |-> [X |-> Min(r.Max.X, s.Max.X), Y |-> Min(r.Max.Y, s.Max.Y)]]
  IN IF Empty(t) THEN Rect(0, 0, 0, 0) ELSE t

\* Rectangle.Inset: an axis too short for the inset collapses to its middle.
Inset(r, n) ==
  LET midX == TruncDiv(r.Min.X + r.Max.X, 2)
      midY == TruncDiv(r.Min.Y + r.Max.Y, 2)
      minX == IF Dx(r) < 2 * n THEN midX ELSE r.Min.X + n
      maxX == IF Dx(r) < 2 * n THEN midX ELSE r.Max.X - n
      minY == IF Dy(r) < 2 * n THEN midY ELSE r.Min.Y + n
      maxY == IF Dy(r) < 2 * n THEN midY ELSE r.Max.Y - n
  IN [Min |-> [X |-> minX, Y |-> minY], Max |-> [X |-> maxX, Y |-> maxY]]

\* The points of r, as the loops over a rectangle visit them.
Points(r) == {Point(x, y) : x \in r.Min.X..(r.Max.X - 1), y \in r.Min.Y..(r.Max.Y - 1)}

RGBA(r, g, b, a) == [R |-> r, G |-> g, B |-> b, A |-> a]

Image(rect, pix) == [Rect |-> rect, Pix |-> pix]

\* RGBA.SubImage
SubImage(im, r) == Image(Intersect(r, im.Rect), im.Pix)

\* RGBA.RGBAAt: the zero color outside the image.
RGBAAt(im, x, y) == IF In(x, y, im.Rect) THEN im.Pix[Point(x, y)] ELSE RGBA(0, 0, 0, 0)

\* RGBA.SetRGBA: no store outside the image.
SetRGBA(im, x, y, c) ==
  IF In(x, y, im.Rect) THEN Image(im.Rect, [im.Pix EXCEPT ![Point(x, y)] = c]) ELSE im

uint8(v) == v % 256

\* ---------------------------------------------------------------- renderer: drawing primitives
\* blendPixel with the opaque store keeping the destination's alpha.
blendPixel_KeepsAlpha(im, x, y, c) ==
  IF c.A = 255 THEN SetRGBA(im, x, y, RGBA(c.R, c.G, c.B, RGBAAt(im, x, y).A))
  ELSE IF c.A = 0 THEN im
  ELSE LET existing == RGBAAt(im, x, y)
           a        == c.A
           inv      == 255 - a
       IN SetRGBA(im, x, y, RGBA(uint8((c.R * a + existing.R * inv) \div 255),
                                 uint8((c.G * a + existing.G * inv) \div 255),
                                 uint8((c.B * a + existing.B * inv) \div 255),
                                 uint8(Min(existing.A + a, 255))))

\* blendPixel alpha-blends a color onto a pixel (the sums stay below 2^32).
blendPixel(im, x, y, c) ==
  IF c.A = 255 THEN SetRGBA(im, x, y, c)
  ELSE IF c.A = 0 THEN im
  ELSE LET existing == RGBAAt(im, x, y)
           a        == c.A
           inv      == 255 - a
       IN SetRGBA(im, x, y, RGBA(uint8((c.R * a + existing.R * inv) \div 255),
                                 uint8((c.G * a + existing.G * inv) \div 255),
                                 uint8((c.B * a + existing.B * inv) \div 255),
                                 uint8(Min(existing.A + a, 255))))

\* blendPixel called once on each point of pts.
BlendEach(im, pts, c) ==
  Image(im.Rect, [p \in DOMAIN im.Pix |-> IF p \in pts THEN blendPixel(im, p[1], p[2], c).Pix[p] ELSE im.Pix[p]])

\* draw.Draw(img, bounds, &image.Uniform{c}, image.Point{}, draw.Src): every
\* pixel of the clipped rectangle becomes c.
FillSrc(im, bounds, c) ==
  LET r == Intersect(bounds, im.Rect)
  IN Image(im.Rect, [p \in DOMAIN im.Pix |-> IF p \in Points(r) THEN c ELSE im.Pix[p]])

\* One channel of image/draw's drawFillOver: with m = 0xffff, the source
\* channel sv * 0x101 and a = (m - sa) * 0x101 for sa = A * 0x101, the store is
\* uint8((d * a / m + sv * 0x101) >> 8); d * a / m is d * 257 * (255 - A) / 255
\* (257 cancels), which keeps the products below 2^31.
OverChannel(d, sv, alpha) == uint8((((d * 257 * (255 - alpha)) \div 255) + sv * 257) \div 256)

\* draw.Draw(..., draw.Over) with a uniform source: the color is read as
\* alpha-premultiplied.
FillOver(im, bounds, c) ==
  LET r == Intersect(bounds, im.Rect)
      over(d) == RGBA(OverChannel(d.R, c.R, c.A), OverChannel(d.G, c.G, c.A),
                      OverChannel(d.B, c.B, c.A), OverChannel(d.A, c.A, c.A))
  IN Image(im.Rect, [p \in DOMAIN im.Pix |-> IF p \in Points(r) THEN over(im.Pix[p]) ELSE im.Pix[p]])

\* drawRect fills a rectangle with alpha blending.
drawRect(im, bounds, c) == IF c.A = 255 THEN FillSrc(im, bounds, c) ELSE FillOver(im, bounds, c)

\* insideRoundedRect with the corner test made on every point.
insideRoundedRect_AllPoints(x, y, r, radius) ==
  LET corners == <<Point(r.Min.X + radius, r.Min.Y + radius), Point(r.Max.X - radius, r.Min.Y + radius),
                   Point(r.Min.X + radius, r.Max.Y - radius), Point(r.Max.X - radius, r.Max.Y - radius)>>
      outside(c) == (x - c[1]) * (x - c[1]) + (y - c[2]) * (y - c[2]) > radius * radius
  IN IF \E i \in 1..4 : outside(corners[i]) THEN FALSE
     ELSE x >= r.Min.X /\ x < r.Max.X /\ y >= r.Min.Y /\ y < r.Max.Y

\* insideRoundedRect checks if (x,y) is inside a rounded rectangle.
insideRoundedRect(x, y, r, radius) ==
  LET corners == <<Point(r.Min.X + radius, r.Min.Y + radius), Point(r.Max.X - radius, r.Min.Y + radius),
                   Point(r.Min.X + radius, r.Max.Y - radius), Point(r.Max.X - radius, r.Max.Y - radius)>>
      outside(c) ==
        LET dx == x - c[1]
            dy == y - c[2]
            inCornerX == (c[1] = r.Min.X + radius /\ x < c[1]) \/ (c[1] = r.Max.X - radius /\ x >= c[1])
            inCornerY == (c[2] = r.Min.Y + radius /\ y < c[2]) \/ (c[2] = r.Max.Y - radius /\ y >= c[2])
        IN inCornerX /\ inCornerY /\ dx * dx + dy * dy > radius * radius
  IN IF \E i \in 1..4 : outside(corners[i]) THEN FALSE
     ELSE x >= r.Min.X /\ x < r.Max.X /\ y >= r.Min.Y /\ y < r.Max.Y

\* The points drawRoundedRect hands to blendPixel.
RoundedRectPoints(bounds, radius) == {p \in Points(bounds) : insideRoundedRect(p[1], p[2], bounds, radius)}

\* drawRoundedRect fills a rectangle with rounded corners.
drawRoundedRect(im, bounds, c, radius) == BlendEach(im, RoundedRectPoints(bounds, radius), c)

\* drawBorder draws a rectangular border of given width: top, bottom, left, right.
drawBorder(im, bounds, c, w) ==
  LET top    == drawRect(im, Rect(bounds.Min.X, bounds.Min.Y, bounds.Max.X, bounds.Min.Y + w), c)
      bottom == drawRect(top, Rect(bounds.Min.X, bounds.Max.Y - w, bounds.Max.X, bounds.Max.Y), c)
      left   == drawRect(bottom, Rect(bounds.Min.X, bounds.Min.Y + w, bounds.Min.X + w, bounds.Max.Y - w), c)
  IN drawRect(left, Rect(bounds.Max.X - w, bounds.Min.Y + w, bounds.Max.X, bounds.Max.Y - w), c)

\* The points drawRoundedBorder hands to blendPixel.
RoundedBorderPoints(bounds, radius, width) ==
  {p \in Points(bounds) : /\ insideRoundedRect(p[1], p[2], bounds, radius)
                          /\ ~insideRoundedRect(p[1], p[2], Inset(bounds, width), Max(radius - width, 0))}

\* drawRoundedBorder draws a border with rounded corners.
drawRoundedBorder(im, bounds, c, radius, width) == BlendEach(im, RoundedBorderPoints(bounds, radius, width), c)

\* ---------------------------------------------------------------- renderer: scaled images
RECURSIVE GCD(_, _)
GCD(a, b) == IF b = 0 THEN a ELSE GCD(b, a % b)

RECURSIVE IsPow2(_)
IsPow2(n) == n = 1 \/ (n % 2 = 0 /\ IsPow2(n \div 2))

\* float64(n) / float64(d) is not n/d exactly: the quotient is rounded.
Rounded(n, d) == ~IsPow2(d \div GCD(n, d))

\* The values int(f) can take for a float64 f computed in one operation from
\* a scale, when the exact result is num/den >= 0: the truncation, or, when
\* the scale is a rounded quotient and the exact result is a whole number,
\* that number or the one below it (1.0/49.0*49.0 is 0.9999999999999999).
FloatInt(num, den, rounded) ==
  IF rounded /\ num > 0 /\ num % den = 0 THEN {(num \div den) - 1, num \div den} ELSE {TruncDiv(num, den)}

\* A decoded source image: its bounds and what its pixels hold.
Source(w, h, kind) == [Rect |-> Rect(0, 0, w, h), Kind |-> kind]

\* src.At(x, y).RGBA() >> 8: a color that varies with the position, opaque or
\* partly transparent (alpha-premultiplied); the zero color outside src.
At(src, x, y) ==
  IF ~In(x, y, src.Rect) THEN RGBA(0, 0, 0, 0)
  ELSE IF src.Kind = "opaque" THEN RGBA(10 + 40 * x, 10 + 40 * y, 7, 255)
  ELSE IF (x + y) % 2 = 0 THEN RGBA(0, 0, 0, 0)
  ELSE RGBA(10 * x, 10 * y, 7, 128)

\* drawContain's scale taken as the larger of the two ratios.
ContainScale_Larger(dstB, srcB) ==
  IF Dx(dstB) * Dy(srcB) >= Dy(dstB) * Dx(srcB) THEN <<Dx(dstB), Dx(srcB)>> ELSE <<Dy(dstB), Dy(srcB)>>

\* min(dx/sx, dy/sy) as a fraction <<numerator, denominator>>.
ContainScale(dstB, srcB) ==
  IF Dx(dstB) * Dy(srcB) <= Dy(dstB) * Dx(srcB) THEN <<Dx(dstB), Dx(srcB)>> ELSE <<Dy(dstB), Dy(srcB)>>

\* max(dx/sx, dy/sy) as a fraction <<numerator, denominator>>.
CoverScale(dstB, srcB) ==
  IF Dx(dstB) * Dy(srcB) >= Dy(dstB) * Dx(srcB) THEN <<Dx(dstB), Dx(srcB)>> ELSE <<Dy(dstB), Dy(srcB)>>

\* int(float64(n) * scale)
Scaled(n, scale) == FloatInt(n * scale[1], scale[2], Rounded(scale[1], scale[2]))

\* int(float64(off + x) / scale) for x = 0 .. n-1, as the sequences of values
\* the n conversions can take.
RECURSIVE Samples(_, _, _)
Samples(n, off, scale) ==
  IF n <= 0 THEN {<<>>}
  ELSE {Append(f, v) : f \in Samples(n - 1, off, scale),
                       v \in FloatInt((off + n - 1) * scale[2], scale[1], Rounded(scale[1], scale[2]))}

\* srcX clamped as drawCover clamps it (drawContain clamps the upper end only).
Clamp(v, lo, hi) == IF v < lo THEN lo ELSE IF v >= hi THEN hi - 1 ELSE v

ClampHigh(v, hi) == IF v >= hi THEN hi - 1 ELSE v

\* The source point drawContain samples for the conversions vx, vy: the upper
\* end is clamped.
ContainSample(src, vx, vy) ==
  Point(ClampHigh(src.Rect.Min.X + vx, src.Rect.Max.X), ClampHigh(src.Rect.Min.Y + vy, src.Rect.Max.Y))

\* The source point drawCover samples: both ends are clamped.
CoverSample(src, vx, vy) ==
  Point(Clamp(src.Rect.Min.X + vx, src.Rect.Min.X, src.Rect.Max.X),
        Clamp(src.Rect.Min.Y + vy, src.Rect.Min.Y, src.Rect.Max.Y))

\* Variant: the conversion rounds up instead of truncating.
ScaledSample_RoundsUp(src, vx, vy) == Point(src.Rect.Min.X + vx + 1, src.Rect.Min.Y + vy + 1)

\* The source point drawScaled samples: srcB.Min plus the conversion, not clamped.
ScaledSample(src, vx, vy) == Point(src.Rect.Min.X + vx, src.Rect.Min.Y + vy)

\* int(float64(x-dstB.Min.X)*scale) for x-dstB.Min.X = 0 .. n-1, as the
\* sequences of values the n conversions can take.
RECURSIVE StretchSamples(_, _)
StretchSamples(n, scale) ==
  IF n <= 0 THEN {<<>>}
  ELSE {Append(f, v) : f \in StretchSamples(n - 1, scale),
                       v \in FloatInt((n - 1) * scale[1], scale[2], Rounded(scale[1], scale[2]))}

\* blendPixel called on each point of pts with the color px gives it.
BlendSampled(dst, pts, px(_)) ==
  Image(dst.Rect,
        [p \in DOMAIN dst.Pix |-> IF p \in pts THEN blendPixel(dst, p[1], p[2], px(p)).Pix[p] ELSE dst.Pix[p]])

\* The points drawContain hands to blendPixel: a newW by newH block centered in dst.
ContainPoints(dst, newW, newH) ==
  LET offX == dst.Rect.Min.X + TruncDiv(Dx(dst.Rect) - newW, 2)
      offY == dst.Rect.Min.Y + TruncDiv(Dy(dst.Rect) - newH, 2)
  IN {Point(offX + x, offY + y) : x \in 0..(newW - 1), y \in 0..(newH - 1)}

\* drawContain scales src to fit inside dst without stretching; fx and fy are
\* the values int(float64(x)/scale) and int(float64(y)/scale) took.
drawContain(dst, src, newW, newH, fx, fy) ==
  LET offX == dst.Rect.Min.X + TruncDiv(Dx(dst.Rect) - newW, 2)
      offY == dst.Rect.Min.Y + TruncDiv(Dy(dst.Rect) - newH, 2)
      px(p) == At(src, ContainSample(src, fx[p[1] - offX + 1], fy[p[2] - offY + 1])[1],
                       ContainSample(src, fx[p[1] - offX + 1], fy[p[2] - offY + 1])[2])
  IN BlendSampled(dst, ContainPoints(dst, newW, newH), px)

\* The points drawCover hands to blendPixel: every point of dst.
CoverPoints(dst) == Points(dst.Rect)

\* drawCover scales src to fill dst, cropping excess; fx and fy are the values
\* int(float64(x-dstB.Min.X+offX)/scale) and its y counterpart took.
drawCover(dst, src, fx, fy) ==
  LET px(p) == At(src, CoverSample(src, fx[p[1] - dst.Rect.Min.X + 1], fy[p[2] - dst.Rect.Min.Y + 1])[1],
                       CoverSample(src, fx[p[1] - dst.Rect.Min.X + 1], fy[p[2] - dst.Rect.Min.Y + 1])[2])
  IN BlendSampled(dst, CoverPoints(dst), px)

\* drawScaled draws src into dst, stretching to fit; fx and fy are the values
\* int(float64(x-dstB.Min.X)*scaleX) and int(float64(y-dstB.Min.Y)*scaleY) took.
drawScaled(dst, src, fx, fy) ==
  LET px(p) == At(src, ScaledSample(src, fx[p[1] - dst.Rect.Min.X + 1], fy[p[2] - dst.Rect.Min.Y + 1])[1],
                       ScaledSample(src, fx[p[1] - dst.Rect.Min.X + 1], fy[p[2] - dst.Rect.Min.Y + 1])[2])
  IN BlendSampled(dst, Points(dst.Rect), px)

\* ---------------------------------------------------------------- renderer: drawing calls
\* The destination image is CanvasSize pixels wide and high.
CanvasSize == 6

\* Largest width and height of a source image.
MaxSourceDim == 5

CanvasRect == Rect(0, 0, CanvasSize, CanvasSize)

\* Destination pixel values.
Palette ==
  <<RGBA(0, 0, 0, 0), RGBA(255, 255, 255, 255), RGBA(10, 200, 128, 100),
    RGBA(255, 0, 127, 254), RGBA(1, 2, 3, 1), RGBA(128, 128, 128, 200)>>

\* Colors as parseHexColorAlpha returns them (not premultiplied).
Alphas == {0, 1, 127, 128, 254, 255}

Colors == {RGBA(255, 0, 0, a) : a \in Alphas} \cup {RGBA(16, 32, 255, a) : a \in Alphas}

\* Component rectangles: inside the canvas, all of it, partly off it, one pixel high.
BoundsChoices ==
  {Rect(0, 0, CanvasSize, CanvasSize), Rect(1, 1, 5, 5), Rect(2, 1, 4, 3),
   Rect(3, 3, CanvasSize + 2, CanvasSize + 2), Rect(0, 2, CanvasSize, 3)}

\* Corner radii of a fill or border; the test itself is also asked with
\* radius 0 and with a radius past half the rectangle.
Radii == 1..3

TestRadii == 0..(CanvasSize - 2)

Widths == 1..2

Sources == {Source(w, h, k) : w \in 1..MaxSourceDim, h \in 1..MaxSourceDim, k \in {"opaque", "sticker"}}

NoSource == Source(0, 0, "opaque")

\* A call of a primitive: its name and its arguments; for drawContain and
\* drawCover also the scaled size and the sample positions the floats gave.
DrawOp(name, at, bounds, c, radius, width, src, newW, newH, fx, fy) ==
  [name |-> name, at |-> at, bounds |-> bounds, c |-> c, radius |-> radius, width |-> width,
   src |-> src, newW |-> newW, newH |-> newH, fx |-> fx, fy |-> fy]

\* A fill or border call.
ShapeOp(name, bounds, c, radius, width) ==
  DrawOp(name, Point(0, 0), bounds, c, radius, width, NoSource, 0, 0, <<>>, <<>>)

\* A call on one point.
PointOp(name, at, bounds, c, radius) ==
  DrawOp(name, at, bounds, c, radius, 0, NoSource, 0, 0, <<>>, <<>>)

\* A drawContain or drawCover call.
ImageOp(name, bounds, src, newW, newH, fx, fy) ==
  DrawOp(name, Point(0, 0), bounds, RGBA(0, 0, 0, 0), 0, 0, src, newW, newH, fx, fy)

InitDraw ==
  /\ \E k \in 0..(Len(Palette) - 1) :
       dstImg = Some(Image(CanvasRect,
                           [p \in Points(CanvasRect) |-> Palette[((p[1] + 2 * p[2] + k) % Len(Palette)) + 1]]))
  /\ dstBefore = Nil /\ drawOp = Nil /\ blended = {}
  /\ MergeIdle /\ AviIdle /\ WrapIdle /\ RenderIdle /\ HostIdle

\* A primitive ran: what it was, what it left, what it blended.
Drawn(call, after, pts) ==
  /\ drawOp' = Some(call)
  /\ dstBefore' = dstImg
  /\ dstImg' = Some(Image(CanvasRect, after.Pix))
  /\ blended' = pts
  /\ UNCHANGED notDrawVars

CallBlendPixel ==
  /\ drawOp = Nil
  /\ \E x \in -1..CanvasSize, y \in -1..CanvasSize, c \in Colors :
       Drawn(PointOp("blendPixel", Point(x, y), CanvasRect, c, 0),
             blendPixel(dstImg[1], x, y, c), {Point(x, y)})

\* insideRoundedRect(x, y, r, radius); the image is left alone and blended
\* holds the point exactly when the answer is true.
CallInsideRoundedRect ==
  /\ drawOp = Nil
  /\ \E x \in -1..(CanvasSize + 2), y \in -1..(CanvasSize + 2), b \in BoundsChoices, radius \in TestRadii :
       Drawn(PointOp("insideRoundedRect", Point(x, y), b, RGBA(0, 0, 0, 0), radius), dstImg[1],
             IF insideRoundedRect(x, y, b, radius) THEN {Point(x, y)} ELSE {})

CallDrawRect ==
  /\ drawOp = Nil
  /\ \E b \in BoundsChoices, c \in Colors :
       Drawn(ShapeOp("drawRect", b, c, 0, 0), drawRect(dstImg[1], b, c), {})

CallDrawRoundedRect ==
  /\ drawOp = Nil
  /\ \E b \in BoundsChoices, c \in Colors, radius \in Radii :
       Drawn(ShapeOp("drawRoundedRect", b, c, radius, 0),
             drawRoundedRect(dstImg[1], b, c, radius), RoundedRectPoints(b, radius))

CallDrawBorder ==
  /\ drawOp = Nil
  /\ \E b \in BoundsChoices, c \in Colors, w \in Widths :
       Drawn(ShapeOp("drawBorder", b, c, 0, w), drawBorder(dstImg[1], b, c, w), {})

CallDrawRoundedBorder ==
  /\ drawOp = Nil
  /\ \E b \in BoundsChoices, c \in Colors, radius \in Radii, w \in Widths :
       Drawn(ShapeOp("drawRoundedBorder", b, c, radius, w),
             drawRoundedBorder(dstImg[1], b, c, radius, w), RoundedBorderPoints(b, radius, w))

\* drawContain(img.SubImage(bounds), bgImg)
CallDrawContain ==
  /\ drawOp = Nil
  /\ \E b \in BoundsChoices, src \in Sources :
       LET dst   == SubImage(dstImg[1], b)
           scale == ContainScale(dst.Rect, src.Rect)
       IN \E newW \in Scaled(Dx(src.Rect), scale), newH \in Scaled(Dy(src.Rect), scale) :
            \E fx \in Samples(newW, 0, scale), fy \in Samples(newH, 0, scale) :
              Drawn(ImageOp("drawContain", b, src, newW, newH, fx, fy),
                    drawContain(dst, src, newW, newH, fx, fy), ContainPoints(dst, newW, newH))

\* drawCover(img.SubImage(bounds), bgImg)
CallDrawCover ==
  /\ drawOp = Nil
  /\ \E b \in BoundsChoices, src \in Sources :
       LET dst   == SubImage(dstImg[1], b)
           scale == CoverScale(dst.Rect, src.Rect)
       IN \E newW \in Scaled(Dx(src.Rect), scale), newH \in Scaled(Dy(src.Rect), scale) :
            \E fx \in Samples(Dx(dst.Rect), TruncDiv(newW - Dx(dst.Rect), 2), scale),
               fy \in Samples(Dy(dst.Rect), TruncDiv(newH - Dy(dst.Rect), 2), scale) :
              Drawn(ImageOp("drawCover", b, src, newW, newH, fx, fy),
                    drawCover(dst, src, fx, fy), CoverPoints(dst))

\* drawScaled(img.SubImage(bounds), bgImg)
CallDrawScaled ==
  /\ drawOp = Nil
  /\ \E b \in BoundsChoices, src \in Sources :
       LET dst == SubImage(dstImg[1], b)
       IN \E fx \in StretchSamples(Dx(dst.Rect), <<Dx(src.Rect), Dx(dst.Rect)>>),
             fy \in StretchSamples(Dy(dst.Rect), <<Dy(src.Rect), Dy(dst.Rect)>>) :
            Drawn(ImageOp("drawScaled", b, src, Dx(dst.Rect), Dy(dst.Rect), fx, fy),
                  drawScaled(dst, src, fx, fy), Points(dst.Rect))

NextDraw ==
  \/ CallBlendPixel
  \/ CallInsideRoundedRect
  \/ CallDrawRect
  \/ CallDrawRoundedRect
  \/ CallDrawBorder
  \/ CallDrawRoundedBorder
  \/ CallDrawContain
  \/ CallDrawCover
  \/ CallDrawScaled

SpecDraw == InitDraw /\ [][NextDraw]_vars

\* ---------------------------------------------------------------- renderer: text wrapping
\* A string is the sequence of its characters.  A face gives each character
\* its advance in 26.6 fixed point (64 units to the pixel).
\* Longest text handed to wrapText.
MaxTextLen == 6

Alphabet == {"i", "M", " ", "\n"}

Space == <<" ">>

IsSpace(ch) == ch \in {" ", "\n", "\t"}

\* strings.Fields: the maximal runs of non-space characters, in order.
RECURSIVE FieldsFrom(_, _, _)
FieldsFrom(s, cur, out) ==
  IF s = <<>> THEN (IF cur = <<>> THEN out ELSE Append(out, cur))
  ELSE IF IsSpace(Head(s)) THEN FieldsFrom(Tail(s), <<>>, IF cur = <<>> THEN out ELSE Append(out, cur))
  ELSE FieldsFrom(Tail(s), Append(cur, Head(s)), out)

Fields(s) == FieldsFrom(s, <<>>, <<>>)

\* font.MeasureString: the sum of the advances.
RECURSIVE MeasureString(_, _)
MeasureString(face, s) == IF s = <<>> THEN 0 ELSE face[Head(s)] + MeasureString(face, Tail(s))

\* fixed.Int26_6.Ceil
Ceil(v) == (v + 63) \div 64

\* The line-with-next-word is refused already when it fits exactly.
TooWide_AtFit(face, test, maxWidth) == Ceil(MeasureString(face, test)) >= maxWidth

\* font.MeasureString(face, test).Ceil() > maxWidth
TooWide(face, test, maxWidth) == Ceil(MeasureString(face, test)) > maxWidth

\* The loop of wrapText over words[1:].
RECURSIVE WrapLoop(_, _, _, _, _)
WrapLoop(ws, lines, cur, maxWidth, face) ==
  IF ws = <<>> THEN Append(lines, cur)
  ELSE LET test == cur \o Space \o Head(ws)
       IN IF TooWide(face, test, maxWidth)
            THEN WrapLoop(Tail(ws), Append(lines, cur), Head(ws), maxWidth, face)
            ELSE WrapLoop(Tail(ws), lines, test, maxWidth, face)

\* wrapText splits text into lines fitting within maxWidth pixels.
wrapText(s, maxWidth, face) ==
  IF maxWidth <= 0 THEN <<s>>
  ELSE LET words == Fields(s)
       IN IF Len(words) = 0 THEN <<>> ELSE WrapLoop(Tail(words), <<>>, words[1], maxWidth, face)

\* Faces: advances of 2.5, 6.5 and 1.5 pixels, and the same face 1.4 times larger.
Faces ==
  {[ch \in Alphabet \cup {"\t"} |-> CASE ch = "i" -> 160 [] ch = "M" -> 416 [] OTHER -> 96],
   [ch \in Alphabet \cup {"\t"} |-> CASE ch = "i" -> 224 [] ch = "M" -> 582 [] OTHER -> 134]}

\* drawW and drawW-indent values: none left, and room for one to three words.
MaxWidths == {0, 7, 10, 16}

Texts == UNION {[1..n -> Alphabet] : n \in 0..MaxTextLen}

InitWrap ==
  /\ \E s \in Texts, maxWidth \in MaxWidths, face \in Faces :
       wrapCall = [text |-> s, maxWidth |-> maxWidth, face |-> face]
  /\ wrapLines = Nil
  /\ MergeIdle /\ AviIdle /\ DrawIdle /\ RenderIdle /\ HostIdle

\* r.wrapText(text, maxWidth, face)
CallWrapText ==
  /\ wrapLines = Nil
  /\ wrapCall # Nil
  /\ wrapLines' = Some(wrapText(wrapCall.text, wrapCall.maxWidth, wrapCall.face))
  /\ UNCHANGED wrapCall
  /\ UNCHANGED notWrapVars

NextWrap == CallWrapText

SpecWrap == InitWrap /\ [][NextWrap]_vars

\* ---------------------------------------------------------------- renderer: text placement
\* alignX computes the x position based on text alignment.
alignX(baseX, areaWidth, line, face, align) ==
  CASE align = "center" -> baseX + TruncDiv(areaWidth - Ceil(MeasureString(face, line)), 2)
    [] align = "right"  -> baseX + areaWidth - Ceil(MeasureString(face, line))
    [] OTHER            -> baseX

\* The text of an item as it is wrapped: "* " stands for the bullet and its
\* space, "1. " is the number of the first numbered item.
ItemText(type, s) ==
  CASE type = "bullet"   -> <<"*", " ">> \o s
    [] type = "numbered" -> <<"1", ".", " ">> \o s
    [] OTHER             -> s

\* indent: int(FontSize*1.2) for a bullet, int(FontSize*1.5) for a numbered
\* item, none for plain text.
Indent(type, fontSize) ==
  CASE type = "bullet"   -> TruncDiv(fontSize * 12, 10)
    [] type = "numbered" -> TruncDiv(fontSize * 15, 10)
    [] OTHER             -> 0

\* A drawString call: the line, where it starts, and which line of its text it is.
Placed(line, x, k) == [line |-> line, x |-> x, i |-> k]

\* The title loop: each wrapped line aligned in the padded area.
PlaceTitle(comp, s, face) ==
  LET drawX == comp.X + comp.Padding
      drawW == comp.Width - 2 * comp.Padding
      ls    == wrapText(s, drawW, face)
  IN [k \in 1..Len(ls) |-> Placed(ls[k], alignX(drawX, drawW, ls[k], face, comp.Style.TextAlign), k - 1)]

\* One pass of the items loop: the text is wrapped to drawW-indent, and a
\* continuation line (i > 0) of an indented item starts from drawX+indent.
PlaceItem(comp, type, s, face) ==
  LET drawX  == comp.X + comp.Padding
      drawW  == comp.Width - 2 * comp.Padding
      indent == Indent(type, comp.Style.FontSize)
      ls     == wrapText(ItemText(type, s), drawW - indent, face)
  IN [k \in 1..Len(ls) |->
        Placed(ls[k],
               alignX(IF k - 1 > 0 /\ indent > 0 THEN drawX + indent ELSE drawX,
                      drawW, ls[k], face, comp.Style.TextAlign),
               k - 1)]

\* Faces with the glyphs of the item prefixes.
ItemFaces ==
  {[ch \in Alphabet \cup {"*", "1", "."} |-> CASE ch = "i" -> 160 [] ch = "M" -> 416 [] OTHER -> 96],
   [ch \in Alphabet \cup {"*", "1", "."} |-> CASE ch = "i" -> 224 [] ch = "M" -> 582 [] OTHER -> 134]}

\* Titles and item texts: words of i and M.
ItemTexts == UNION {[1..n -> {"i", "M", " "}] : n \in 1..(MaxTextLen - 1)}

\* Components of different widths, font sizes and alignments, 3 pixels from
\* the left with a padding of 2.
TextBoxes ==
  {[X |-> 3, Padding |-> 2, Width |-> w,
    Style |-> [FontSize |-> fs, TextAlign |-> ta]] :
     w \in {4, 14, 20, 28}, fs \in {2, 4}, ta \in {"left", "center", "right", ""}}

InitLayout ==
  /\ \E comp \in TextBoxes, type \in {"title", "text", "bullet", "numbered"}, s \in ItemTexts, face \in ItemFaces :
       wrapCall = [comp |-> comp, type |-> type, text |-> s, face |-> face]
  /\ wrapLines = Nil
  /\ MergeIdle /\ AviIdle /\ DrawIdle /\ RenderIdle /\ HostIdle

\* The title loop of drawComponentContent
DrawTitle ==
  /\ wrapLines = Nil
  /\ wrapCall.type = "title"
  /\ wrapLines' = Some(PlaceTitle(wrapCall.comp, wrapCall.text, wrapCall.face))
  /\ UNCHANGED wrapCall
  /\ UNCHANGED notWrapVars

\* One pass of the items loop of drawComponentContent
DrawItem ==
  /\ wrapLines = Nil
  /\ wrapCall.type # "title"
  /\ wrapLines' = Some(PlaceItem(wrapCall.comp, wrapCall.type, wrapCall.text, wrapCall.face))
  /\ UNCHANGED wrapCall
  /\ UNCHANGED notWrapVars

NextLayout == DrawTitle \/ DrawItem

SpecLayout == InitLayout /\ [][NextLayout]_vars

\* ---------------------------------------------------------------- fonts
\* The file system as the renderer meets it: what each path holds.  A missing
\* or unreadable file fails os.ReadFile and os.Open; a file that is not of
\* the kind asked for fails opentype.Parse or image.Decode.
FileKinds == {"missing", "unreadable", "font", "image", "junk"}

Embedded == "goregular.TTF"

\* os.ReadFile(path) returns an error.
ReadFails(fs, path) == fs[path] \in {"missing", "unreadable"}

\* opentype.Parse(data) returns an error; the embedded font always parses.
ParseFails(fs, font) == font # Embedded /\ fs[font] # "font"

FontManager(font) == [parsed |-> font]

\* NewFontManager of parser.go: the custom font when it can be read, the
\* embedded one otherwise; an error when what was read does not parse.
NewFontManager(fs, customPath) ==
  LET fontData == IF customPath # "" /\ ~ReadFails(fs, customPath) THEN customPath ELSE Embedded
  IN IF ParseFails(fs, fontData) THEN [fm |-> Nil, err |-> Some("parse font")]
     ELSE [fm |-> Some(FontManager(fontData)), err |-> Nil]

\* NewFontManager of fonts.go.
NewFontManagerV1(fs, customPath) ==
  LET custom   == IF customPath # "" /\ ~ReadFails(fs, customPath) THEN Some(customPath) ELSE Nil
      fontData == IF custom = Nil THEN Embedded ELSE custom[1]
  IN IF ParseFails(fs, fontData) THEN [fm |-> Nil, err |-> Some("failed to parse font")]
     ELSE [fm |-> Some(FontManager(fontData)), err |-> Nil]

DefaultDPI == 72

Face(fm, size, dpi) == [font |-> fm.parsed, Size |-> size, DPI |-> dpi]

\* GetFace of parser.go: dpi = max(dpi, 72); opentype.NewFace does not fail.
GetFace(fm, size, dpi) == [face |-> Some(Face(fm, size, Max(dpi, DefaultDPI))), err |-> Nil]

\* GetFace of fonts.go: if dpi <= 0 { dpi = 72 }.
GetFaceV1(fm, size, dpi) == [face |-> Some(Face(fm, size, IF dpi <= 0 THEN DefaultDPI ELSE dpi)), err |-> Nil]

\* ---------------------------------------------------------------- renderer: RenderPreset
Renderer(fm) == [fontManager |-> fm, dpi |-> DefaultDPI]

\* NewRenderer creates a renderer with the specified font.
NewRenderer(fs, fontPath) ==
  LET made == NewFontManager(fs, fontPath)
  IN IF made.err # Nil THEN [renderer |-> Nil, err |-> made.err]
     ELSE [renderer |-> Some(Renderer(made.fm[1])), err |-> Nil]

\* loadImage: the decoded image, or Nil for an error.
loadImage(fs, path) == IF fs[path] = "image" THEN Some(path) ELSE Nil

\* parseHexColorAlpha on the colors the scenes use: six digits are opaque,
\* eight carry the alpha, anything else is white.
parseHexColorAlpha(hex) ==
  CASE hex = "#112233"   -> RGBA(17, 34, 51, 255)
    [] hex = "#ff0000"   -> RGBA(255, 0, 0, 255)
    [] hex = "#ff000080" -> RGBA(255, 0, 0, 128)
    [] hex = "#00000000" -> RGBA(0, 0, 0, 0)
    [] hex = "#000000"   -> RGBA(0, 0, 0, 255)
    [] hex = "#0a0a0a"   -> RGBA(10, 10, 10, 255)
    [] hex = "#00ff00"   -> RGBA(0, 255, 0, 255)
    [] OTHER             -> RGBA(255, 255, 255, 255)

\* One drawing step of a render: the primitive, the component it belongs to
\* ("" for the canvas) and what it drew with.
Step(op, comp, arg) == [op |-> op, comp |-> comp, arg |-> arg]

\* drawPresetBackground fills with an image or solid color.
drawPresetBackground(fs, p) ==
  IF p.Background.Type = "image" /\ p.Background.Source # "" /\ loadImage(fs, p.Background.Source) # Nil
    THEN <<Step("drawScaled", "", p.Background.Source)>>
    ELSE <<Step("draw.Draw", "", p.Background.Color)>>

\* 1. Container background.
ContainerSteps(comp) ==
  IF comp.Style.BackgroundColor # "" /\ parseHexColorAlpha(comp.Style.BackgroundColor).A > 0
    THEN <<Step(IF comp.Style.CornerRadius > 0 THEN "drawRoundedRect" ELSE "drawRect",
                comp.ID, comp.Style.BackgroundColor)>>
    ELSE <<>>

\* 2. Background image (sticker/logo); a failed load prints a warning.
ImageSteps(fs, comp) ==
  IF comp.Style.BackgroundImage # "" /\ loadImage(fs, comp.Style.BackgroundImage) # Nil
    THEN <<Step(CASE comp.Style.BackgroundFit = "contain" -> "drawContain"
                  [] comp.Style.BackgroundFit = "cover" -> "drawCover"
                  [] OTHER -> "drawScaled",
                comp.ID, comp.Style.BackgroundImage)>>
    ELSE <<>>

\* 3. Border.
BorderSteps(comp) ==
  IF comp.Style.BorderWidth > 0 /\ comp.Style.BorderColor # ""
    THEN <<Step(IF comp.Style.CornerRadius > 0 THEN "drawRoundedBorder" ELSE "drawBorder",
                comp.ID, comp.Style.BorderColor)>>
    ELSE <<>>

ItemsOf(comp) == IF comp.Data.Items = Nil THEN <<>> ELSE comp.Data.Items[1]

\* Resolve per-component font (with fallback to global).
ComponentFontManager(fs, r, comp) ==
  IF comp.Style.FontPath # "" /\ NewFontManager(fs, comp.Style.FontPath).err = Nil
    THEN NewFontManager(fs, comp.Style.FontPath).fm[1]
    ELSE r.fontManager

\* drawComponentContent renders title and items within a component.
drawComponentContent(fs, r, comp) ==
  IF comp.Data.Title = "" /\ Len(ItemsOf(comp)) = 0 THEN <<>>
  ELSE IF comp.Width - 2 * comp.Padding <= 0 THEN <<>>
  ELSE LET compFM  == ComponentFontManager(fs, r, comp)
           title   == IF comp.Data.Title # ""
                        THEN <<Step("title", comp.ID, GetFace(compFM, comp.Style.FontSize, r.dpi).face[1].font)>>
                        ELSE <<>>
           items   == [k \in 1..Len(ItemsOf(comp)) |->
                         Step("item", comp.ID, GetFace(compFM, comp.Style.FontSize, r.dpi).face[1].font)]
       IN title \o items

\* drawComponent stopping at a background image that does not load.
drawComponent_StopsAtMissingImage(fs, r, comp) ==
  IF comp.Style.BackgroundImage # "" /\ loadImage(fs, comp.Style.BackgroundImage) = Nil
    THEN ContainerSteps(comp)
    ELSE ContainerSteps(comp) \o ImageSteps(fs, comp) \o BorderSteps(comp) \o drawComponentContent(fs, r, comp)

\* drawComponent paints a component's container and content.
drawComponent(fs, r, comp) ==
  ContainerSteps(comp) \o ImageSteps(fs, comp) \o BorderSteps(comp) \o drawComponentContent(fs, r, comp)

\* Variant: the component loop runs from the last component to the first.
RECURSIVE DrawComponents_LastFirst(_, _, _)
DrawComponents_LastFirst(fs, r, components) ==
  IF components = <<>> THEN <<>>
  ELSE DrawComponents_LastFirst(fs, r, Tail(components)) \o drawComponent(fs, r, Head(components))

RECURSIVE DrawComponents(_, _, _)
DrawComponents(fs, r, components) ==
  IF components = <<>> THEN <<>>
  ELSE drawComponent(fs, r, Head(components)) \o DrawComponents(fs, r, Tail(components))

\* RenderPreset creates an image from a preset and its resolved components:
\* the steps that drew it, and the error (none of its calls returns one).
RenderPreset(fs, r, p, components) ==
  [img |-> Some(drawPresetBackground(fs, p) \o DrawComponents(fs, r, components)), err |-> Nil]

\* ---------------------------------------------------------------- renderer: scenes
FontPaths == {"global.ttf", "comp.ttf"}

ImagePaths == {"bg.png", "logo.png"}

\* Every state of the font files; an image file is missing, unreadable, an
\* image or something else.
FileSystems ==
  {[path \in FontPaths \cup ImagePaths |->
      IF path = "global.ttf" THEN g ELSE IF path = "comp.ttf" THEN c ELSE IF path = "bg.png" THEN b ELSE l] :
     g \in FileKinds \ {"image"}, c \in FileKinds \ {"image"},
     b \in {"missing", "image", "junk"}, l \in {"missing", "unreadable", "image"}}

Resolved(id, width, pad, style, title, items) ==
  [ID |-> id, X |-> 0, Y |-> 0, Width |-> width, Height |-> 100, ZIndex |-> 0, Padding |-> pad,
   Style |-> style, Data |-> ComponentData(Nil, title, items, Nil)]

\* Components as MergeData resolves them: a titled card with a logo, border
\* and font of its own; the same without a font; a bare logo; text in a box
\* too narrow for its padding; a rounded, half-transparent card with a list.
SceneComponents ==
  {<<Resolved("card", 200, 10,
              ComponentStyle("#112233", "logo.png", "contain", "#ff0000", 2, 0, "comp.ttf", 24, "#ffffff", 15, "left"),
              "Title", Some(Items1))>>,
   <<Resolved("card", 200, 10,
              ComponentStyle("#112233", "logo.png", "cover", "#ff0000", 2, 0, "", 24, "#ffffff", 15, "left"),
              "Title", Nil)>>,
   <<Resolved("logo", 200, 0,
              ComponentStyle("", "logo.png", "", "", 0, 0, "", 24, "#ffffff", 15, "left"),
              "", Nil),
     Resolved("caption", 200, 10,
              ComponentStyle("#00000000", "", "", "#ff0000", 0, 0, "comp.ttf", 24, "#ffffff", 15, "center"),
              "", Some(Items2))>>,
   <<Resolved("narrow", 20, 10,
              ComponentStyle("#112233", "", "", "", 0, 0, "comp.ttf", 24, "#ffffff", 15, "left"),
              "Title", Nil)>>,
   <<Resolved("round", 200, 10,
              ComponentStyle("#ff000080", "logo.png", "", "#ff000080", 3, 8, "comp.ttf", 24, "#ffffff", 15, "right"),
              "", Some(Items1))>>}

Scene(bgType, source, fontPath, components) ==
  [Background |-> [Type |-> bgType, Source |-> source, Color |-> "#112233"],
   Font |-> [Path |-> fontPath], Components |-> components]

Scenes ==
  {Scene(bg[1], bg[2], fp, cs) : bg \in {<<"color", "">>, <<"image", "bg.png">>, <<"image", "">>},
                                 fp \in {"", "global.ttf"}, cs \in SceneComponents}

\* Sizes and resolutions asked of GetFace.
FontSizes == {24}

DPIs == {-1, 0, 1, 36, 72, 96, 300}

InitRender ==
  /\ files \in FileSystems
  /\ scene \in Scenes
  /\ renderer = Nil /\ rendered = Nil /\ renderErr = Nil
  /\ fontMgr = Nil /\ gotFace = Nil
  /\ MergeIdle /\ AviIdle /\ DrawIdle /\ WrapIdle /\ HostIdle

\* renderer, err := template.NewRenderer(preset.Font.Path)
CallNewRenderer ==
  /\ renderer = Nil /\ renderErr = Nil
  /\ renderer' = NewRenderer(files, scene.Font.Path).renderer
  /\ renderErr' = NewRenderer(files, scene.Font.Path).err
  /\ UNCHANGED <<files, scene, rendered, fontMgr, gotFace>>
  /\ UNCHANGED notRenderVars

\* img, err := renderer.RenderPreset(preset, components)
CallRenderPreset ==
  /\ renderer # Nil /\ rendered = Nil
  /\ rendered' = RenderPreset(files, renderer[1], scene, scene.Components).img
  /\ renderErr' = RenderPreset(files, renderer[1], scene, scene.Components).err
  /\ UNCHANGED <<files, scene, renderer, fontMgr, gotFace>>
  /\ UNCHANGED notRenderVars

NextRender == CallNewRenderer \/ CallRenderPreset

SpecRender == InitRender /\ [][NextRender]_vars

\* ---------------------------------------------------------------- fonts: calls
InitFont ==
  /\ files \in FileSystems
  /\ scene \in {s \in Scenes : s.Background.Type = "color" /\ Len(s.Components) = 2}
  /\ renderer = Nil /\ rendered = Nil /\ renderErr = Nil
  /\ fontMgr = Nil /\ gotFace = Nil
  /\ MergeIdle /\ AviIdle /\ DrawIdle /\ WrapIdle /\ HostIdle

\* A font manager was asked for: by which NewFontManager, for which path,
\* and what came back.
Made(impl, path, made) ==
  /\ fontMgr' = Some([impl |-> impl, path |-> path, fm |-> made.fm, err |-> made.err])
  /\ UNCHANGED <<files, scene, renderer, rendered, renderErr, gotFace>>
  /\ UNCHANGED notRenderVars

\* NewFontManager(customPath) of parser.go
CallNewFontManager ==
  /\ fontMgr = Nil
  /\ \E path \in FontPaths \cup {""} : Made("parser.go", path, NewFontManager(files, path))

\* NewFontManager(customPath) of fonts.go
CallNewFontManagerV1 ==
  /\ fontMgr = Nil
  /\ \E path \in FontPaths \cup {""} : Made("fonts.go", path, NewFontManagerV1(files, path))

\* A face was asked of the font manager made before.
Got(size, dpi, got) ==
  /\ gotFace' = Some([size |-> size, dpi |-> dpi, face |-> got.face, err |-> got.err])
  /\ UNCHANGED <<files, scene, renderer, rendered, renderErr, fontMgr>>
  /\ UNCHANGED notRenderVars

\* fm.GetFace(size, dpi) of parser.go
CallGetFace ==
  /\ gotFace = Nil
  /\ fontMgr # Nil /\ fontMgr[1].impl = "parser.go" /\ fontMgr[1].fm # Nil
  /\ \E size \in FontSizes, dpi \in DPIs : Got(size, dpi, GetFace(fontMgr[1].fm[1], size, dpi))

\* fm.GetFace(size, dpi) of fonts.go
CallGetFaceV1 ==
  /\ gotFace = Nil
  /\ fontMgr # Nil /\ fontMgr[1].impl = "fonts.go" /\ fontMgr[1].fm # Nil
  /\ \E size \in FontSizes, dpi \in DPIs : Got(size, dpi, GetFaceV1(fontMgr[1].fm[1], size, dpi))

NextFont ==
  \/ CallNewRenderer
  \/ CallNewFontManager
  \/ CallNewFontManagerV1
  \/ CallGetFace
  \/ CallGetFaceV1

SpecFont == InitFont /\ [][NextFont]_vars

\* ---------------------------------------------------------------- resolve and render: inputs
\* merged := comp.Defaults copies the struct out of the range copy of the
\* component, and mergeComponentData(&merged, override) assigns the fields of
\* that copy: the component keeps the Defaults it had.
DefaultsAfterMerge_InPlace(comp, merged) == merged

DefaultsAfterMerge(comp, merged) == comp.Defaults

\* finalStyle := comp.Style is a copy too; mergeComponentStyle(&finalStyle, ...)
\* assigns its fields.
StyleAfterMerge(comp, finalStyle) == comp.Style

\* The preset as MergeData leaves it.
PresetAfterMergeData(p, d) ==
  [p EXCEPT !.Components =
     [k \in 1..Len(p.Components) |->
        [p.Components[k] EXCEPT
           !.Defaults = DefaultsAfterMerge(p.Components[k], MergedData(p.Components[k], d)),
           !.Style = StyleAfterMerge(p.Components[k],
                                     FinalStyle(p.Components[k], MergedData(p.Components[k], d)))]]]

\* The DataSpec as MergeData leaves it: each override is passed by value and
\* only read.
DataAfterMergeData(p, d) == d

\* The components and the preset as RenderPreset leaves them: drawComponent
\* and drawComponentContent take each ResolvedComponent by value and assign
\* locals only (fit, text, indent); the preset is read for its background.
ComponentsAfterRender(components) == components

PresetAfterRender(p) == p

\* Asset paths the styles of the presets and overrides name.
AssetPaths == {"bg.png", "over.png", "a.ttf", "b.ttf"}

\* Every asset in place, or none.
AssetFiles ==
  {[path \in AssetPaths |-> IF path \in {"bg.png", "over.png"} THEN "image" ELSE "font"],
   [path \in AssetPaths |-> "missing"]}

InitReuse ==
  /\ preset \in Presets
  /\ data \in DataChoices(preset)
  /\ resolved = Nil
  /\ warnings = Nil
  /\ files \in AssetFiles
  /\ scene \in {Scene("color", "", "", <<>>), Scene("image", "bg.png", "", <<>>)}
  /\ renderer = NewRenderer(files, scene.Font.Path).renderer
  /\ rendered = Nil /\ renderErr = Nil
  /\ fontMgr = Nil /\ gotFace = Nil
  /\ AviIdle /\ DrawIdle /\ WrapIdle /\ HostIdle

\* components := template.MergeData(preset, data), any number of times
CallMergeData ==
  /\ resolved' = Some(MergeData(preset, data))
  /\ preset' = PresetAfterMergeData(preset, data)
  /\ data' = DataAfterMergeData(preset, data)
  /\ UNCHANGED <<warnings, files, scene, renderer, rendered, renderErr, fontMgr, gotFace>>
  /\ UNCHANGED <<aviVars, drawVars, wrapVars, hostVars>>

\* img, err := renderer.RenderPreset(preset, components), any number of times
CallRenderResolved ==
  /\ resolved # Nil
  /\ rendered' = RenderPreset(files, renderer[1], scene, resolved[1]).img
  /\ renderErr' = RenderPreset(files, renderer[1], scene, resolved[1]).err
  /\ resolved' = Some(ComponentsAfterRender(resolved[1]))
  /\ scene' = PresetAfterRender(scene)
  /\ UNCHANGED <<preset, data, warnings, files, renderer, fontMgr, gotFace>>
  /\ UNCHANGED <<aviVars, drawVars, wrapVars, hostVars>>

NextReuse == CallMergeData \/ CallRenderResolved

SpecReuse == InitReuse /\ [][NextReuse]_vars

\* ---------------------------------------------------------------- generator.go: resolveImage
\* Config of generator.go; Image is nil or the pre-rendered image's size.
GenConfig(image, w, h, d, color) ==
  [Image |-> image, Width |-> w, Height |-> h, Duration |-> d, Color |-> color]

\* Bytes rand.Read may draw for a random color.
RandomBytes == {<<0, 0, 0>>, <<18, 52, 86>>, <<255, 255, 255>>}

\* ParseColor: the outcomes for a color string. "" and "random" draw three
\* bytes; "#1a1a2e" parses; "red" is not six characters and "#gg0000" has no
\* hexadecimal red channel.
ParseColor(s) ==
  CASE s \in {"", "random"} -> {[rgb |-> b, err |-> Nil] : b \in RandomBytes}
    [] s = "#1a1a2e"        -> {[rgb |-> <<26, 26, 46>>, err |-> Nil]}
    [] s = "red"            -> {[rgb |-> <<0, 0, 0>>, err |-> Some("invalid color: expected 6-char hex")]}
    [] OTHER                -> {[rgb |-> <<0, 0, 0>>, err |-> Some("invalid red channel")]}

\* toRGBA constructs a color with full alpha.
toRGBA(r, g, b) == RGBA(r, g, b, 255)

\* NewSolidImage creates a uniform image of w by h pixels.
NewSolidImage(w, h, c) == [Dx |-> w, Dy |-> h, Uniform |-> Some(c)]

\* resolveImage returns the source image from config, creating a solid-color
\* image if none is provided: w := max(cfg.Width, 1280), h := max(cfg.Height, 720).
resolveImage(cfg) ==
  IF cfg.Image # Nil THEN {[img |-> cfg.Image, err |-> Nil]}
  ELSE LET w == Max(cfg.Width, DefaultWidth)
           h == Max(cfg.Height, DefaultHeight)
       IN {IF parsed.err # Nil THEN [img |-> Nil, err |-> parsed.err]
           ELSE [img |-> Some(NewSolidImage(w, h, toRGBA(parsed.rgb[1], parsed.rgb[2], parsed.rgb[3]))),
                 err |-> Nil] : parsed \in ParseColor(cfg.Color)}

\* Widths and heights a caller sets: unset, negative, below, at and above
\* the defaults.
GenWidths == {-1, 0, 1, 640, DefaultWidth - 1, DefaultWidth, DefaultWidth + 1, 1920}

GenHeights == {-1, 0, 1, 480, DefaultHeight - 1, DefaultHeight, DefaultHeight + 1, 1080}

GenConfigs ==
  {GenConfig(Nil, w, h, 1, col) : w \in GenWidths, h \in GenHeights,
                                  col \in {"", "random", "#1a1a2e", "red", "#gg0000"}}
  \cup {GenConfig(Some([Dx |-> 800, Dy |-> 600, Uniform |-> Nil]), w, 0, 1, "") : w \in {0, 640}}

InitGenerate ==
  /\ config \in GenConfigs
  /\ pc = "resolveImage"
  /\ img = Nil /\ jpegData = Nil /\ avi = Nil
  /\ loopI = W(0) /\ moviOffset = W(0)
  /\ file = Nil /\ ret = Nil /\ writeFailed = FALSE
  /\ MergeIdle /\ DrawIdle /\ WrapIdle /\ RenderIdle /\ HostIdle

\* img, err := resolveImage(cfg)
CallResolveImage ==
  /\ pc = "resolveImage"
  /\ \E got \in resolveImage(config) :
       /\ img' = got.img
       /\ ret' = IF got.err = Nil THEN Some("nil") ELSE got.err
  /\ pc' = "resolved"
  /\ UNCHANGED <<config, writeFailed, jpegData, avi, loopI, moviOffset, file>>
  /\ UNCHANGED notAviVars

NextGenerate == CallResolveImage

SpecGenerate == InitGenerate /\ [][NextGenerate]_vars

\* ---------------------------------------------------------------- loader.go: LoadPreset

\* A path is the sequence of its elements; TempRoot is the system's temp
\* directory and TempDir the directory os.MkdirTemp creates under it.
TempRoot == <<"tmp">>

TempDir == TempRoot \o <<"gspresets-1">>

\* filepath.Clean on the elements of a rooted path: "." is dropped and ".."
\* removes the element before it (and is dropped at the root).
RECURSIVE CleanFrom(_, _)
CleanFrom(done, rest) ==
  IF rest = <<>> THEN done
  ELSE IF rest[1] = "." THEN CleanFrom(done, Tail(rest))
  ELSE IF rest[1] = ".."
    THEN CleanFrom(IF done = <<>> THEN <<>> ELSE SubSeq(done, 1, Len(done) - 1), Tail(rest))
  ELSE CleanFrom(Append(done, rest[1]), Tail(rest))

Clean(path) == CleanFrom(<<>>, path)

\* filepath.Join(dir, name): the elements joined, then cleaned.
JoinPath(dir, name) == Clean(dir \o name)

\* filepath.Dir of a cleaned path.
Dir(path) == IF path = <<>> THEN <<>> ELSE SubSeq(path, 1, Len(path) - 1)

\* strings.HasPrefix(filepath.Clean(target), filepath.Clean(destDir) + separator):
\* the cleaned target lies strictly below the cleaned destDir.
InsideDir(target, destDir) ==
  LET t == Clean(target)
      d == Clean(destDir)
  IN Len(t) > Len(d) /\ SubSeq(t, 1, Len(d)) = d

\* A zip entry: its name, whether it is a directory, and its content ("json"
\* parses as a preset, "garbage" does not).
ZipEntry(name, isDir, body) == [Name |-> name, IsDir |-> isDir, body |-> body]

\* A disk is the set of the paths written, each with its content ("dir" for a
\* directory).
OnDisk(disk, path) == \E e \in disk : e.path = path

BodyAt(disk, path) == (CHOOSE e \in disk : e.path = path).body

IsDirAt(disk, path) == OnDisk(disk, path) /\ BodyAt(disk, path) = "dir"

IsFileAt(disk, path) == OnDisk(disk, path) /\ BodyAt(disk, path) # "dir"

\* The directories from destDir (which exists) down to path.
Ancestors(path, destDir) ==
  {SubSeq(path, 1, k) : k \in (Len(destDir) + 1)..Len(path)}

\* os.MkdirAll(path): fails when an element of the path is a file, else creates
\* the missing directories. Paths outside destDir need no new directory here:
\* the directories above destDir exist.
MkdirAllFails(disk, path, destDir) ==
  \E a \in Ancestors(path, destDir) : IsFileAt(disk, a)

MkdirAll(disk, path, destDir) ==
  disk \cup {[path |-> a, body |-> "dir"] : a \in {b \in Ancestors(path, destDir) : ~OnDisk(disk, b)}}

\* os.Create(target) followed by io.Copy: the file is created or truncated and
\* takes the entry's content.
CreateFile(disk, target, body) ==
  {e \in disk : e.path # target} \cup {[path |-> target, body |-> body]}

\* extractZip (loader.go:138) from entry k on: disk is what has been written so
\* far, fault the entry at which the operating system fails (0: nowhere) and
\* faultAt the call that fails there. The result is the error and the disk.
RECURSIVE extractFrom(_, _, _, _, _, _, _)
extractFrom(entries, destDir, k, disk, fault, faultAt, guarded) ==
  IF k > Len(entries) THEN [err |-> Nil, disk |-> disk]
  ELSE
    LET f == entries[k]
        target == JoinPath(destDir, f.Name)
        failsHere(call) == fault = k /\ faultAt = call
    IN IF guarded /\ ~InsideDir(target, destDir)
         THEN [err |-> Some("illegal path in zip"), disk |-> disk]
       ELSE IF f.IsDir
         THEN IF failsHere("mkdir") \/ MkdirAllFails(disk, target, destDir)
                THEN [err |-> Some("mkdir"), disk |-> disk]
              ELSE extractFrom(entries, destDir, k + 1, MkdirAll(disk, target, destDir),
                               fault, faultAt, guarded)
       ELSE IF failsHere("mkdir") \/ MkdirAllFails(disk, Dir(target), destDir)
         THEN [err |-> Some("mkdir"), disk |-> disk]
       ELSE
         LET made == MkdirAll(disk, Dir(target), destDir)
         IN IF failsHere("create") \/ IsDirAt(made, target)
              THEN [err |-> Some("create"), disk |-> made]
            ELSE IF failsHere("copy")
              THEN [err |-> Some("copy"), disk |-> CreateFile(made, target, "garbage")]
            ELSE extractFrom(entries, destDir, k + 1, CreateFile(made, target, f.body),
                             fault, faultAt, guarded)

\* extractZip without the zip-slip guard of loader.go:143.
extractZip_Unguarded(entries, destDir, fault, faultAt) ==
  extractFrom(entries, destDir, 1, {}, fault, faultAt, FALSE)

extractZip(entries, destDir, fault, faultAt) ==
  extractFrom(entries, destDir, 1, {}, fault, faultAt, TRUE)

\* What extractZip wrote below destDir, and what it wrote elsewhere.
Below(disk, destDir) == {e \in disk : InsideDir(e.path, destDir)}

Elsewhere(disk, destDir) == {e \in disk : ~InsideDir(e.path, destDir)}

\* What LoadPreset returns, with the disk it leaves: the preset, the cleanup
\* function ("noop" or "remove"), the error, the temp directory (Nil when it
\* does not exist) and the paths written outside it.
Loaded(p, cleanup, err, dir, out) ==
  [preset |-> p, cleanup |-> cleanup, err |-> err, tmpDir |-> dir, escaped |-> out]

\* LoadPreset (loader.go:17). The archive is zip (its entries, and whether
\* zip.OpenReader accepts it); fault and faultAt choose where the operating
\* system fails. On each error path after os.MkdirTemp the code calls
\* cleanup(), which removes the temp directory, and returns noop.
LoadPreset(zip, fault, faultAt) ==
  IF ~zip.valid THEN Loaded(Nil, "noop", Some("open"), Nil, {})
  ELSE IF fault = 0 /\ faultAt = "mkdtemp"
    THEN Loaded(Nil, "noop", Some("create temp dir"), Nil, {})
  ELSE
    LET x == extractZip(zip.entries, TempDir, fault, faultAt)
        in == Below(x.disk, TempDir)
        out == Elsewhere(x.disk, TempDir)
        presetPath == JoinPath(TempDir, <<"preset.json">>)
    IN IF x.err # Nil THEN Loaded(Nil, "noop", x.err, Nil, out)
       ELSE IF ~IsFileAt(x.disk, presetPath) \/ (fault = 0 /\ faultAt = "read")
         THEN Loaded(Nil, "noop", Some("read preset.json"), Nil, out)
       ELSE IF BodyAt(x.disk, presetPath) # "json"
         THEN Loaded(Nil, "noop", Some("parse preset.json"), Nil, out)
       ELSE Loaded(Some(TempDir), "remove", Nil, Some(in), out)

\* The names, entries and archives LoadPreset is given.
EntryNames ==
  { <<"preset.json">>, <<"assets", "bg.png">>, <<"assets">>,
    <<"..", "evil.sh">>, <<"assets", "..", "..", "evil.sh">>,
    <<"assets", "..", "preset.json">>, <<".">> }

ZipEntries ==
  {ZipEntry(n, FALSE, b) : n \in EntryNames, b \in {"json", "garbage"}}
    \cup {ZipEntry(n, TRUE, "dir") : n \in {<<"assets">>, <<"..", "evil.sh">>}}

MaxEntries == 2

RECURSIVE EntryLists(_)
EntryLists(n) ==
  IF n = 0 THEN {<<>>}
  ELSE LET shorter == EntryLists(n - 1)
       IN shorter \cup {Append(l, e) : l \in {m \in shorter : Len(m) = n - 1}, e \in ZipEntries}

Archives == {[valid |-> v, entries |-> l] : v \in BOOLEAN, l \in EntryLists(MaxEntries)}

FaultCalls == {"none", "mkdtemp", "read", "mkdir", "create", "copy"}

InitLoad ==
  /\ zipFile \in Archives
  /\ tmpDir = Nil /\ escaped = {} /\ loadPc = "start" /\ loadRet = Nil
  /\ MergeIdle /\ AviIdle /\ DrawIdle /\ WrapIdle /\ RenderIdle /\ EditIdle /\ ServeIdle

\* The caller calls LoadPreset.
CallLoadPreset ==
  /\ loadPc = "start"
  /\ \E fault \in 0..MaxEntries, faultAt \in FaultCalls :
       LET r == LoadPreset(zipFile, fault, faultAt)
       IN /\ loadRet' = Some([preset |-> r.preset, cleanup |-> r.cleanup, err |-> r.err])
          /\ tmpDir' = r.tmpDir
          /\ escaped' = r.escaped
  /\ loadPc' = "returned"
  /\ UNCHANGED <<zipFile, notLoadVars>>

\* The caller calls the cleanup function LoadPreset returned: noop does
\* nothing, the other is os.RemoveAll(tmpDir).
CallCleanup ==
  /\ loadPc \in {"returned", "cleaned"}
  /\ tmpDir' = IF loadRet[1].cleanup = "remove" THEN Nil ELSE tmpDir
  /\ loadPc' = "cleaned"
  /\ UNCHANGED <<zipFile, escaped, loadRet, notLoadVars>>

NextLoad == CallLoadPreset \/ CallCleanup

SpecLoad == InitLoad /\ [][NextLoad]_vars

\* ---------------------------------------------------------------- app.js: preview rendering

\* The content of the two editors: rev counts the edits that produced it,
\* valid says that both editors hold valid JSON (getEditorJSON returns no
\* error), renders that the server answers a render request for it with an
\* image (res.ok).
Content(rev, valid, renders) == [rev |-> rev, valid |-> valid, renders |-> renders]

\* The preview: the content its image was rendered from (Nil before the first
\* image) and whether the error box is shown.
Preview(src, error) == [src |-> src, error |-> error]

MaxEdits == 3

\* The debounce delay of scheduleRender, in milliseconds.
RenderDelay == 350

\* scheduleRender (app.js:126): the pending timer is cleared and a new one set.
scheduleRender == Some(RenderDelay)

\* render (app.js:138) up to the fetch call, on the page state s: it returns at
\* once while a render is in flight, shows the error of invalid JSON, and
\* otherwise sets isRendering and sends the current content.
render(s) ==
  IF s.isRendering THEN s
  ELSE IF ~s.editorValue.valid
    THEN [s EXCEPT !.previewImg = Preview(s.previewImg.src, TRUE)]
  ELSE [s EXCEPT !.previewImg = Preview(s.previewImg.src, FALSE),
                 !.isRendering = TRUE,
                 !.inFlight = Some(s.editorValue)]

\* render (app.js:146-162) from the response on: the image replaces the
\* preview's when the response is ok, else the error is shown; finally
\* isRendering is reset.
rendered_(s) ==
  [s EXCEPT !.previewImg = IF s.inFlight[1].renders
                             THEN Preview(Some(s.inFlight[1]), s.previewImg.error)
                             ELSE Preview(s.previewImg.src, TRUE),
            !.isRendering = FALSE,
            !.inFlight = Nil]

\* The page state as one record, and back.
Page ==
  [editorValue |-> editorValue, renderTimeout |-> renderTimeout, isRendering |-> isRendering,
   inFlight |-> inFlight, previewImg |-> previewImg]

SetPage(s) ==
  /\ editorValue' = s.editorValue
  /\ renderTimeout' = s.renderTimeout
  /\ isRendering' = s.isRendering
  /\ inFlight' = s.inFlight
  /\ previewImg' = s.previewImg

\* init (app.js:83-121) ends with render(): the page starts with its built-in
\* content, which is valid and renders, and the first request in flight.
InitEdit ==
  /\ editorValue = Content(0, TRUE, TRUE)
  /\ renderTimeout = Nil
  /\ isRendering = TRUE
  /\ inFlight = Some(Content(0, TRUE, TRUE))
  /\ previewImg = Preview(Nil, FALSE)
  /\ edits = 0
  /\ MergeIdle /\ AviIdle /\ DrawIdle /\ WrapIdle /\ RenderIdle /\ LoadIdle /\ ServeIdle

\* The user edits one of the editors: the 'input' listener is scheduleRender.
Input ==
  /\ edits < MaxEdits
  /\ \E valid \in BOOLEAN, renders \in BOOLEAN :
       editorValue' = Content(edits + 1, valid, renders)
  /\ edits' = edits + 1
  /\ renderTimeout' = scheduleRender
  /\ UNCHANGED <<isRendering, inFlight, previewImg, notEditVars>>

\* The debounce timer fires and runs render.
TimerFires ==
  /\ renderTimeout # Nil
  /\ SetPage(render([Page EXCEPT !.renderTimeout = Nil]))
  /\ UNCHANGED <<edits, notEditVars>>

\* The server's response to the request in flight arrives.
ResponseArrives ==
  /\ isRendering
  /\ SetPage(rendered_(Page))
  /\ UNCHANGED <<edits, notEditVars>>

NextEdit == Input \/ TimerFires \/ ResponseArrives

\* Timers fire and the local server answers every request; the user may stop
\* editing at any time.
SpecEdit ==
  /\ InitEdit /\ [][NextEdit]_vars
  /\ WF_vars(TimerFires) /\ WF_vars(ResponseArrives)

\* ---------------------------------------------------------------- server: resolveAssetPath

\* The render requests the server handles at once; net/http runs each
\* handler in a goroutine of its own.
Reqs == {1, 2}

\* The length of the uploaded asset's data, in blocks.
AssetLen == 3

\* A file's content: for each block, whether it holds the asset's data (TRUE)
\* or is a hole left by a write beyond the end of the file (FALSE).
WholeCopy == [k \in 1..AssetLen |-> TRUE]

\* os.OpenFile(tmpPath, O_WRONLY|O_CREATE|O_TRUNC, 0644), the first step of
\* os.WriteFile: the file exists and is empty.
OpenTruncate == Some(<<>>)

\* f.Write of n blocks at offset off of a file with content c: the blocks take
\* the data, and blocks between the old end and off become a hole.
WriteAt(c, off, n) ==
  [k \in 1..Max(Len(c), off + n) |->
     IF k > off /\ k <= off + n THEN TRUE
     ELSE IF k <= Len(c) THEN c[k]
     ELSE FALSE]

InitServe ==
  /\ reqPc = [r \in Reqs |-> "resolve"]
  /\ tmpFile = Nil
  /\ reqOff = [r \in Reqs |-> 0]
  /\ seen = [r \in Reqs |-> Nil]
  /\ MergeIdle /\ AviIdle /\ DrawIdle /\ WrapIdle /\ RenderIdle /\ LoadIdle /\ EditIdle

\* renderImage calls resolveAssetPath for the asset the preset references:
\* the asset is found under its id, and os.WriteFile opens the temp file named
\* after the id and the asset's name, truncating it. Both requests name the
\* same asset, hence the same file.
ResolveOpen(r) ==
  /\ reqPc[r] = "resolve"
  /\ tmpFile' = OpenTruncate
  /\ reqOff' = [reqOff EXCEPT ![r] = 0]
  /\ reqPc' = [reqPc EXCEPT ![r] = "write"]
  /\ UNCHANGED <<seen, notServeVars>>

\* os.WriteFile writes the asset's data: the operating system takes some of
\* the remaining blocks at a time; after the last the file is closed and
\* resolveAssetPath returns the path.
ResolveWrite(r) ==
  /\ reqPc[r] = "write"
  /\ \E n \in 1..(AssetLen - reqOff[r]) :
       /\ tmpFile' = Some(WriteAt(tmpFile[1], reqOff[r], n))
       /\ reqOff' = [reqOff EXCEPT ![r] = reqOff[r] + n]
       /\ reqPc' = [reqPc EXCEPT ![r] = IF reqOff[r] + n = AssetLen THEN "render" ELSE "write"]
  /\ UNCHANGED <<seen, notServeVars>>

\* NewRenderer or RenderPreset reads the file at the resolved path.
RenderRead(r) ==
  /\ reqPc[r] = "render"
  /\ seen' = [seen EXCEPT ![r] = tmpFile]
  /\ reqPc' = [reqPc EXCEPT ![r] = "done"]
  /\ UNCHANGED <<tmpFile, reqOff, notServeVars>>

\* The client sends the next render request.
NextRequest(r) ==
  /\ reqPc[r] = "done"
  /\ reqPc' = [reqPc EXCEPT ![r] = "resolve"]
  /\ seen' = [seen EXCEPT ![r] = Nil]
  /\ UNCHANGED <<tmpFile, reqOff, notServeVars>>

NextServe ==
  \E r \in Reqs : ResolveOpen(r) \/ ResolveWrite(r) \/ RenderRead(r) \/ NextRequest(r)

SpecServe == InitServe /\ [][NextServe]_vars

\* ---------------------------------------------------------------- resolver properties
Comps == preset.Components

\* The preset component a resolved entry was made from (IDs are unique).
CompOf(r) == Comps[CHOOSE i \in 1..Len(Comps) : Comps[i].ID = r.ID]

\* Position of an ID in the declaration order.
DeclPos(id) == CHOOSE i \in 1..Len(Comps) : Comps[i].ID = id

HasOverride(id) == data # Nil /\ id \in DOMAIN data[1].Components

OverrideOf(id) == data[1].Components[id]

\* The override's visible when the override sets it, else the default's.
EffectiveVisible(comp) ==
  IF HasOverride(comp.ID) /\ OverrideOf(comp.ID).Visible # Nil
    THEN OverrideOf(comp.ID).Visible
    ELSE comp.Defaults.Visible

ResolvedIDs == {resolved[1][j].ID : j \in 1..Len(resolved[1])}

HeaderFooterPreset == Len(Comps) = 2 /\ Comps[1].ID = "header" /\ Comps[2].ID = "footer"

HeaderHiddenByOverride == HasOverride("header") /\ OverrideOf("header").Visible = Some(FALSE)

\* C1: a component ID is in MergeData's result exactly when its effective
\* visibility (override's visible if set, else the default's, unset = visible)
\* is not explicit false; each survivor appears once; with header hidden by
\* override in a header/footer preset the result is exactly <<footer>>.
C1_VisibleIffResolved ==
  resolved # Nil =>
    /\ \A i \in 1..Len(Comps) :
         (Comps[i].ID \in ResolvedIDs) <=> (EffectiveVisible(Comps[i]) # Some(FALSE))
    /\ \A j, k \in 1..Len(resolved[1]) : resolved[1][j].ID = resolved[1][k].ID => j = k
    /\ ResolvedIDs \subseteq {Comps[i].ID : i \in 1..Len(Comps)}
    /\ (HeaderFooterPreset /\ HeaderHiddenByOverride /\ EffectiveVisible(Comps[2]) # Some(FALSE))
         => (Len(resolved[1]) = 1 /\ resolved[1][1].ID = "footer")

C1_Witness ==
  /\ resolved # Nil /\ HeaderFooterPreset /\ HeaderHiddenByOverride
  /\ Comps[1].Defaults.Visible = Some(TRUE)
  /\ Len(resolved[1]) = 1 /\ resolved[1][1].ID = "footer"

Geometry(r) == <<r.X, r.Y, r.Width, r.Height, r.ZIndex, r.Padding>>

\* The (ID, geometry) pairs of a result.
GeometryByID(res) == {<<res[j].ID, Geometry(res[j])>> : j \in 1..Len(res)}

\* Override sets to compare a result with: nil, and a content override or a
\* full style override for one of the first two components.
OtherData ==
  {Nil} \cup {Some(DataSpec([k \in {key} |-> o])) :
                key \in {"header", "footer"},
                o \in {ComponentData(Some(TRUE), "Override title", Some(Items2), Nil),
                       ComponentData(Nil, "", Nil, Some(OverStyle))}}

\* C2: for any other override set of the same preset, every component that
\* survives in both results has the same X, Y, Width, Height, ZIndex, Padding.
C2_GeometryFromPresetOnly ==
  resolved # Nil =>
    \A d2 \in OtherData :
      \A a \in GeometryByID(resolved[1]), b \in GeometryByID(MergeData(preset, d2)) :
        a[1] = b[1] => a[2] = b[2]

C2_Witness ==
  /\ resolved # Nil /\ HasOverride("header")
  /\ OverrideOf("header").Style = Some(OverStyle)
  /\ \E j \in 1..Len(resolved[1]) :
       /\ resolved[1][j].ID = "header"
       /\ resolved[1][j].Style = OverStyle
       /\ \E k \in 1..Len(MergeData(preset, Nil)) :
            /\ MergeData(preset, Nil)[k].ID = "header"
            /\ MergeData(preset, Nil)[k].Style # OverStyle

\* C3: the result is in ascending zIndex order and equal-zIndex components
\* keep their declaration order.
C3_StableZOrder ==
  resolved # Nil =>
    \A j, k \in 1..Len(resolved[1]) :
      j < k =>
        /\ resolved[1][j].ZIndex <= resolved[1][k].ZIndex
        /\ resolved[1][j].ZIndex = resolved[1][k].ZIndex
             => DeclPos(resolved[1][j].ID) < DeclPos(resolved[1][k].ID)

\* Two equal-zIndex survivors declared around a lower-zIndex one: the sort
\* has to move the middle component in front of both.
C3_Witness ==
  /\ resolved # Nil /\ Len(Comps) >= 3 /\ Len(resolved[1]) = 3
  /\ Comps[1].ZIndex = 1 /\ Comps[2].ZIndex = 0 /\ Comps[3].ZIndex = 1
  /\ resolved[1][1].ID = Comps[2].ID
  /\ resolved[1][2].ID = Comps[1].ID
  /\ resolved[1][3].ID = Comps[3].ID

\* q is num/den truncated toward zero.
IsTruncation(q, num, den) ==
  IF num >= 0 THEN q * den <= num /\ num < (q + 1) * den
  ELSE (q - 1) * den < num /\ num <= q * den

\* C4: X and Width are fraction * canvas width, Y and Height are fraction *
\* canvas height, each truncated toward zero; a footer at (0, 0.5, 1.0, 0.5)
\* on a 1000x1000 canvas resolves to (0, 500, 1000, 500).
C4_TruncatedPixels ==
  resolved # Nil =>
    \A j \in 1..Len(resolved[1]) :
      LET r == resolved[1][j]
          c == CompOf(r)
      IN /\ IsTruncation(r.X, c.X * preset.Canvas.Width, FracDen)
         /\ IsTruncation(r.Width, c.Width * preset.Canvas.Width, FracDen)
         /\ IsTruncation(r.Y, c.Y * preset.Canvas.Height, FracDen)
         /\ IsTruncation(r.Height, c.Height * preset.Canvas.Height, FracDen)
         /\ (preset.Canvas = [Width |-> 1000, Height |-> 1000]
              /\ 2 * c.X = 0 /\ 2 * c.Y = FracDen /\ c.Width = FracDen /\ 2 * c.Height = FracDen)
             => <<r.X, r.Y, r.Width, r.Height>> = <<0, 500, 1000, 500>>

\* A product that is not a whole number of pixels and lies above the half
\* (3/8 of 5 = 1.875 resolves to 1), and the footer of the example.
C4_Witness ==
  /\ resolved # Nil
  /\ \/ \E j \in 1..Len(resolved[1]) :
          /\ preset.Canvas.Height = 5 /\ CompOf(resolved[1][j]).Y * 8 = 3 * FracDen
          /\ resolved[1][j].Y = 1
     \/ /\ HeaderFooterPreset /\ HeaderHiddenByOverride
        /\ preset.Canvas = [Width |-> 1000, Height |-> 1000]
        /\ Len(resolved[1]) = 1
        /\ <<resolved[1][1].X, resolved[1][1].Y, resolved[1][1].Width, resolved[1][1].Height>> = <<0, 500, 1000, 500>>

\* C5: with an override, title = override's title if non-empty else the
\* default's, items = the override's list if it supplies one (even empty)
\* else the default's; without an override both are the defaults.
C5_TitleAndItems ==
  resolved # Nil =>
    \A j \in 1..Len(resolved[1]) :
      LET r == resolved[1][j]
          c == CompOf(r)
      IN IF HasOverride(c.ID)
           THEN /\ r.Data.Title = IF OverrideOf(c.ID).Title # "" THEN OverrideOf(c.ID).Title ELSE c.Defaults.Title
                /\ r.Data.Items = IF OverrideOf(c.ID).Items # Nil THEN OverrideOf(c.ID).Items ELSE c.Defaults.Items
           ELSE r.Data.Title = c.Defaults.Title /\ r.Data.Items = c.Defaults.Items

\* An empty override list replaces a non-empty default list.
C5_Witness ==
  /\ resolved # Nil /\ HasOverride("header")
  /\ OverrideOf("header").Items = Some(<<>>)
  /\ Comps[1].ID = "header" /\ Comps[1].Defaults.Items = Some(Items1)
  /\ \E j \in 1..Len(resolved[1]) :
       /\ resolved[1][j].ID = "header"
       /\ resolved[1][j].Data.Items = Some(<<>>)
       /\ resolved[1][j].Data.Title = "Default title"

\* C6: every style field takes the override's value when that is a non-empty
\* string or a non-zero number, else keeps the preset style's value.
C6_StyleNonZeroReplaces ==
  resolved # Nil =>
    \A j \in 1..Len(resolved[1]) :
      LET r == resolved[1][j]
          c == CompOf(r)
      IN (HasOverride(c.ID) /\ OverrideOf(c.ID).Style # Nil) =>
           LET o == OverrideOf(c.ID).Style[1]
           IN /\ \A f \in StrFields : r.Style[f] = IF o[f] # "" THEN o[f] ELSE c.Style[f]
              /\ \A f \in NumFields : r.Style[f] = IF o[f] # 0 THEN o[f] ELSE c.Style[f]

\* The keys of the override map.
DataKeys == IF data = Nil THEN {} ELSE DOMAIN data[1].Components

PresetIDs == {Comps[i].ID : i \in 1..Len(Comps)}

\* data with the keys that name no component removed.
KnownOnly ==
  IF data = Nil THEN Nil
  ELSE Some(DataSpec([k \in DataKeys \cap PresetIDs |-> data[1].Components[k]]))

\* C7: ValidateData returns exactly one warning per override key that is not
\* a component ID and none for known IDs; MergeData's result is the one
\* obtained with the unknown keys removed.
C7_UnknownKeysWarnedAndIgnored ==
  /\ warnings # Nil =>
       /\ \A k \in DataKeys \ PresetIDs :
            Cardinality({i \in 1..Len(warnings[1]) : warnings[1][i][2] = k}) = 1
       /\ \A i \in 1..Len(warnings[1]) : warnings[1][i][2] \in DataKeys \ PresetIDs
  /\ resolved # Nil => resolved[1] = MergeData(preset, KnownOnly)

\* An override map with a hiding override for header and a commented-out key.
C7_Witness ==
  /\ warnings # Nil /\ resolved # Nil
  /\ DataKeys = {"header", "// header"}
  /\ "header" \in PresetIDs
  /\ OverrideOf("// header").Visible = Some(FALSE)
  /\ OverrideOf("header").Visible # Some(FALSE)
  /\ Len(warnings[1]) = 1
  /\ "header" \in ResolvedIDs

\* ---------------------------------------------------------------- container properties
\* Generate returned nil: the container is complete.
Generated == pc = "returned" /\ ret = Some("nil")

Tokens == file[1]

\* Number of bytes of the writes a..b, as a pair.
RECURSIVE Span(_, _)
Span(a, b) ==
  IF b < a THEN W(0)
  ELSE IF a = b THEN W(Size(Tokens[a]))
  ELSE WAdd(Span(a, (a + b) \div 2), Span(((a + b) \div 2) + 1, b))

\* Position of the only write of FourCC tag.
TagAt(tag) == CHOOSE k \in 1..Len(Tokens) : Tokens[k] = FourCC(tag)

IsTag(k, tag) == k \in 1..Len(Tokens) /\ Tokens[k] = FourCC(tag)

\* Positions of the 00dc tags of the frame chunks (between movi and idx1).
FrameTags == {k \in (TagAt("movi") + 1)..(TagAt("idx1") - 1) : IsTag(k, "00dc")}

\* The frame chunk at k: tag, declared size, payload, and a zero byte exactly
\* when the payload is odd-sized; the declared size is the payload's size and
\* the next sibling (a frame chunk or idx1) follows.
FrameChunkOK(k) ==
  LET odd  == Tokens[k + 2].n % 2 = 1
      next == IF odd THEN k + 4 ELSE k + 3
  IN /\ Tokens[k + 1].kind = "u32"
     /\ Tokens[k + 2].kind = "jpegData"
     /\ Tokens[k + 1].v = W(Tokens[k + 2].n)
     /\ odd => Tokens[k + 3] = ZeroByte
     /\ IsTag(next, "00dc") \/ IsTag(next, "idx1")

\* C8: for a duration >= 1, every size field of the finished container (RIFF,
\* LIST hdrl, avih, LIST strl, strh, strf, LIST movi, each 00dc chunk, idx1)
\* equals the number of bytes that follow it up to the next sibling chunk, a
\* frame's pad byte not counted; the RIFF size is the file length minus 8.
C8_SizeFieldsMatchSpans ==
  (Generated /\ config.Duration >= 1) =>
    LET n    == Len(Tokens)
        hdrl == TagAt("hdrl")
        avih == TagAt("avih")
        strl == TagAt("strl")
        strh == TagAt("strh")
        strf == TagAt("strf")
        movi == TagAt("movi")
        idx1 == TagAt("idx1")
    IN /\ IsTag(1, "RIFF") /\ Tokens[2].v = Span(3, n)
       /\ IsTag(hdrl - 2, "LIST") /\ Tokens[hdrl - 1].v = Span(hdrl, movi - 3)
       /\ Tokens[avih + 1].v = Span(avih + 2, strl - 3)
       /\ IsTag(strl - 2, "LIST") /\ Tokens[strl - 1].v = Span(strl, movi - 3)
       /\ Tokens[strh + 1].v = Span(strh + 2, strf - 1)
       /\ Tokens[strf + 1].v = Span(strf + 2, movi - 3)
       /\ IsTag(movi - 2, "LIST") /\ Tokens[movi - 1].v = Span(movi, idx1 - 1)
       /\ IsTag(movi + 1, "00dc") \/ IsTag(movi + 1, "idx1")
       /\ \A k \in FrameTags : FrameChunkOK(k)
       /\ Tokens[idx1 + 1].v = Span(idx1 + 2, n)

\* Position of the 00dc tag of frame j (j = 0, 1, ...) in the movi block.
FrameTagOf(j) == CHOOSE k \in FrameTags : Cardinality({m \in FrameTags : m < k}) = j

\* Position of index entry j (j = 0, 1, ...) in the idx1 block.
EntryAt(j) == TagAt("idx1") + 2 + 4 * j

NumEntries == (Len(Tokens) - (TagAt("idx1") + 1)) \div 4

\* C9: idx1 holds one entry per frame, in frame order: tag 00dc, flag 0x10,
\* the offset of the frame's 00dc tag from the movi tag, the unpadded size;
\* the first offset is 4 and consecutive offsets differ by 8 + F + (F mod 2).
C9_IndexOffsetsLandOnFrames ==
  Generated =>
    LET movi == TagAt("movi")
        size == jpegData[1]
    IN /\ Len(Tokens) - (TagAt("idx1") + 1) = 4 * Cardinality(FrameTags)
       /\ \A j \in 0..(NumEntries - 1) :
            /\ Tokens[EntryAt(j)] = FourCC("00dc")
            /\ Tokens[EntryAt(j) + 1] = Uint32(W(16))
            /\ Tokens[EntryAt(j) + 2] = Uint32(Span(movi, FrameTagOf(j) - 1))
            /\ Tokens[EntryAt(j) + 3] = Uint32(W(size))
            /\ j = 0 => Tokens[EntryAt(j) + 2].v = W(4)
            /\ j > 0 => Tokens[EntryAt(j) + 2].v = WAdd(Tokens[EntryAt(j - 1) + 2].v, W(8 + size + (size % 2)))

\* Number of frame chunks written so far.
FramesWritten ==
  IF file = Nil \/ file[1] = <<>> THEN 0
  ELSE Cardinality({k \in (TagAt("movi") + 1)..Len(Tokens) :
                      IsTag(k, "00dc") /\ k + 2 <= Len(Tokens) /\ Tokens[k + 2].kind = "jpegData"})

\* max(d, 1) * 15
ExpectedFrames == Max(config.Duration, 1) * fps

\* C10: for every Config.Duration d the generator writes exactly
\* max(d, 1) * 15 frame chunks, each carrying the one JPEG encoding; the total
\* frames fields of avih and strh and the number of idx1 entries equal that
\* count.
C10_FrameCountIsClampedDuration ==
  /\ FramesWritten <= ExpectedFrames
  /\ (file # Nil /\ file[1] # <<>>) =>
       /\ Tokens[TagAt("avih") + 6] = Uint32(W(ExpectedFrames))
       /\ Tokens[TagAt("strh") + 11] = Uint32(W(ExpectedFrames))
       /\ \A k \in 1..Len(Tokens) : Tokens[k].kind = "jpegData" => Tokens[k] = Bytes(jpegData[1])
  /\ Generated =>
       /\ FramesWritten = ExpectedFrames
       /\ NumEntries = ExpectedFrames

\* C11: Generate returns nil only if the JPEG was encoded and every write of
\* the container succeeded; a failed encoding returns an error with no output
\* file created; once a write has failed the result is never nil.
C11_AllOrNothing ==
  /\ Generated => (jpegData # Nil /\ ~writeFailed)
  /\ ret = Some("failed to encode JPEG") => file = Nil
  /\ (writeFailed /\ pc = "returned") => (ret # Nil /\ ret # Some("nil"))

\* ---------------------------------------------------------------- drawing properties
\* The primitive that ran.
Call == drawOp[1]

Called(name) == drawOp # Nil /\ drawOp[1].name = name

PixBefore(p) == dstBefore[1].Pix[p]

PixAfter(p) == dstImg[1].Pix[p]

\* The point blendPixel was called on.
Target == Call.at

\* C12: blendPixel with source alpha 255 sets the destination pixel to
\* exactly the source color in all four channels, whatever the pixel held; with
\* source alpha 0 it leaves the image unchanged.
C12_OpaqueSetsTransparentKeeps ==
  Called("blendPixel") =>
    /\ (Call.c.A = 255 /\ Target \in Points(CanvasRect)) =>
         /\ PixAfter(Target) = Call.c
         /\ \A p \in Points(CanvasRect) \ {Target} : PixAfter(p) = PixBefore(p)
    /\ Call.c.A = 0 => dstImg = dstBefore

\* An opaque color was blended onto a partly transparent pixel of another color.
C12_Witness ==
  /\ Called("blendPixel") /\ Call.c.A = 255 /\ Target \in Points(CanvasRect)
  /\ PixBefore(Target) = RGBA(10, 200, 128, 100)
  /\ PixAfter(Target) = RGBA(255, 0, 0, 255)

\* (src*a + dst*(255-a)) / 255 per color channel, alpha min(dst.a + a, 255).
BlendFormula(src, d) ==
  RGBA((src.R * src.A + d.R * (255 - src.A)) \div 255,
       (src.G * src.A + d.G * (255 - src.A)) \div 255,
       (src.B * src.A + d.B * (255 - src.A)) \div 255,
       Min(d.A + src.A, 255))

\* The strips of a straight border do not overlap.
DisjointStrips == 2 * Call.width <= Dx(Call.bounds) /\ 2 * Call.width <= Dy(Call.bounds)

\* C13: a draw with source alpha 0 < a < 255 (plain rectangle fill, rounded
\* rectangle fill, straight border, rounded border) leaves every pixel either
\* untouched or holding (src*a + dst*(255-a)) / 255 per color channel with
\* alpha min(dst.a + a, 255), each within 0..255; a plain fill touches every
\* pixel of its rectangle.
C13_PartialAlphaBlendFormula ==
  (/\ drawOp # Nil
   /\ Call.name \in {"drawRect", "drawRoundedRect", "drawBorder", "drawRoundedBorder"}
   /\ Call.c.A > 0 /\ Call.c.A < 255
   /\ Call.name = "drawBorder" => DisjointStrips) =>
    /\ \A p \in Points(CanvasRect) :
         /\ PixAfter(p) \in {PixBefore(p), BlendFormula(Call.c, PixBefore(p))}
         /\ \A ch \in {"R", "G", "B", "A"} : PixAfter(p)[ch] \in 0..255
    /\ Call.name = "drawRect" =>
         \A p \in Points(Intersect(Call.bounds, CanvasRect)) : PixAfter(p) = BlendFormula(Call.c, PixBefore(p))

\* The corner quadrants of r that hold (x, y), each as the center of its circle.
QuadrantCenters(x, y, r, radius) ==
  LET left   == x < r.Min.X + radius
      right  == x >= r.Max.X - radius
      top    == y < r.Min.Y + radius
      bottom == y >= r.Max.Y - radius
  IN {c \in {Point(r.Min.X + radius, r.Min.Y + radius)} : left /\ top}
     \cup {c \in {Point(r.Max.X - radius, r.Min.Y + radius)} : right /\ top}
     \cup {c \in {Point(r.Min.X + radius, r.Max.Y - radius)} : left /\ bottom}
     \cup {c \in {Point(r.Max.X - radius, r.Max.Y - radius)} : right /\ bottom}

\* (x, y) is in r and within radius of the center of every corner quadrant it is in.
InRounded(x, y, r, radius) ==
  /\ In(x, y, r)
  /\ \A c \in QuadrantCenters(x, y, r, radius) :
       (x - c[1]) * (x - c[1]) + (y - c[2]) * (y - c[2]) <= radius * radius

\* C14: insideRoundedRect(x, y, r, radius) is true exactly when (x, y) is in
\* r and, where it falls in a corner quadrant, no farther than radius from that
\* quadrant's center; so a point of r in no corner quadrant is inside, a point
\* outside r is not, and radius 0 gives plain membership in r.  The rounded
\* fill and the rounded border blend exactly the points the test admits.
C14_InsideRoundedRect ==
  /\ Called("insideRoundedRect") =>
       LET x      == Call.at[1]
           y      == Call.at[2]
           inside == Call.at \in blended
       IN /\ inside <=> InRounded(x, y, Call.bounds, Call.radius)
          /\ (In(x, y, Call.bounds) /\ QuadrantCenters(x, y, Call.bounds, Call.radius) = {}) => inside
          /\ ~In(x, y, Call.bounds) => ~inside
          /\ Call.radius = 0 => (inside <=> In(x, y, Call.bounds))
  /\ Called("drawRoundedRect") =>
       blended = {p \in Points(Call.bounds) : InRounded(p[1], p[2], Call.bounds, Call.radius)}
  /\ Called("drawRoundedBorder") =>
       blended = {p \in Points(Call.bounds) :
                    /\ InRounded(p[1], p[2], Call.bounds, Call.radius)
                    /\ ~InRounded(p[1], p[2], Inset(Call.bounds, Call.width), Max(Call.radius - Call.width, 0))}

\* A point of r in a corner quadrant, farther than radius from its center, was refused.
C14_Witness ==
  /\ Called("insideRoundedRect")
  /\ In(Call.at[1], Call.at[2], Call.bounds)
  /\ Call.radius > 0
  /\ QuadrantCenters(Call.at[1], Call.at[2], Call.bounds, Call.radius) # {}
  /\ blended = {}

\* The destination of a drawContain or drawCover call: the sub-image's bounds.
DstRect == Intersect(Call.bounds, CanvasRect)

\* C15: for every source size and every destination rectangle of positive
\* width and height, drawContain blends only points of the destination
\* rectangle (its scaled image is no larger than the destination on either
\* axis, and no pixel outside changes), and drawCover blends every point of
\* the destination rectangle, so an opaque source leaves each of them holding
\* an opaque source pixel.
C15_ContainInsideCoverComplete ==
  /\ (Called("drawContain") /\ Dx(DstRect) > 0 /\ Dy(DstRect) > 0) =>
       /\ Call.newW <= Dx(DstRect) /\ Call.newH <= Dy(DstRect)
       /\ blended \subseteq Points(DstRect)
       /\ \A p \in Points(CanvasRect) \ Points(DstRect) : PixAfter(p) = PixBefore(p)
  /\ (Called("drawCover") /\ Dx(DstRect) > 0 /\ Dy(DstRect) > 0) =>
       /\ blended = Points(DstRect)
       /\ Call.src.Kind = "opaque" =>
            \A p \in Points(DstRect) :
              /\ PixAfter(p).A = 255
              /\ \E q \in Points(Call.src.Rect) : PixAfter(p) = At(Call.src, q[1], q[2])

\* A source larger than the destination was letterboxed: it was drawn, and
\* narrower than the destination.
C15_Witness ==
  /\ Called("drawContain")
  /\ Dx(Call.src.Rect) > Dx(DstRect)
  /\ blended # {}
  /\ Call.newW < Dx(DstRect)
  /\ Call.newH = Dy(DstRect)

\* ---------------------------------------------------------------- wrapping properties
\* The lines joined by single spaces.
RECURSIVE Join(_)
Join(ls) == IF ls = <<>> THEN <<>> ELSE IF Len(ls) = 1 THEN ls[1] ELSE ls[1] \o <<" ">> \o Join(Tail(ls))

\* s with every run of white space made one space and none at either end.
RECURSIVE Squeeze(_, _)
Squeeze(s, out) ==
  IF s = <<>> THEN out
  ELSE IF Head(s) \in {" ", "\n", "\t"} THEN Squeeze(Tail(s), out)
  ELSE IF out # <<>> /\ Len(s) < Len(wrapCall.text) /\ wrapCall.text[Len(wrapCall.text) - Len(s)] \in {" ", "\n", "\t"}
    THEN Squeeze(Tail(s), out \o <<" ", Head(s)>>)
  ELSE Squeeze(Tail(s), Append(out, Head(s)))

HasSpace(l) == \E j \in 1..Len(l) : l[j] = " "

\* The first word of a line.
FirstWord(l) == IF HasSpace(l) THEN SubSeq(l, 1, (CHOOSE j \in 1..Len(l) : l[j] = " " /\ \A k \in 1..(j - 1) : l[k] # " ") - 1) ELSE l

\* Width of s in 26.6 fixed point under the call's face.
Width(s) == MeasureString(wrapCall.face, s)

\* The available width in 26.6 fixed point.
Avail == 64 * wrapCall.maxWidth

\* C16: for an available width W > 0, the lines of wrapText joined by single
\* spaces are the input's words in order, each line made of whole words; every
\* line of two or more words measures at most W; a line break comes before a
\* word only when the line before it with that word appended would measure
\* more than W; a word wider than W is alone on its line.
C16_GreedyWholeWordWrap ==
  (wrapLines # Nil /\ wrapCall.maxWidth > 0) =>
    LET ls == wrapLines[1]
    IN /\ Join(ls) = Squeeze(wrapCall.text, <<>>)
       /\ \A k \in 1..Len(ls) :
            /\ ls[k] # <<>> /\ ls[k][1] # " " /\ ls[k][Len(ls[k])] # " "
            /\ \A j \in 1..Len(ls[k]) : ls[k][j] \notin {"\n", "\t"}
            /\ \A j \in 1..(Len(ls[k]) - 1) : ~(ls[k][j] = " " /\ ls[k][j + 1] = " ")
            /\ HasSpace(ls[k]) => Width(ls[k]) <= Avail
            /\ k > 1 => Width(ls[k - 1] \o <<" ">> \o FirstWord(ls[k])) > Avail
            /\ \A a \in 1..Len(ls[k]) : \A b \in a..Len(ls[k]) :
                 (~HasSpace(SubSeq(ls[k], a, b)) /\ Width(SubSeq(ls[k], a, b)) > Avail) => ~HasSpace(ls[k])

\* Three words were wrapped into a line of two and a line holding one word
\* wider than the available width.
C16_Witness ==
  /\ wrapLines # Nil /\ wrapCall.maxWidth > 0
  /\ Len(wrapLines[1]) = 2
  /\ HasSpace(wrapLines[1][1])
  /\ ~HasSpace(wrapLines[1][2]) /\ Width(wrapLines[1][2]) > Avail

\* ---------------------------------------------------------------- renderer properties
\* The steps RenderPreset drew.
Steps == rendered[1]

\* The steps drawn for one component.
StepsOf(comp) == SelectSeq(Steps, LAMBDA s : s.comp = comp.ID)

Ops(comp) == {StepsOf(comp)[k].op : k \in 1..Len(StepsOf(comp))}

SceneComponent(k) == scene.Components[k]

\* The file at a path loads as a font, as an image.
FontLoads(path) == path # "" /\ files[path] = "font"

ImageLoads(path) == path # "" /\ files[path] = "image"

\* The fonts a component's text was drawn with.
TextFonts(comp) ==
  {StepsOf(comp)[k].arg : k \in {n \in 1..Len(StepsOf(comp)) : StepsOf(comp)[n].op \in {"title", "item"}}}

\* The global preset font, or the embedded font when that one is unavailable.
GlobalOrEmbedded == IF FontLoads(scene.Font.Path) THEN scene.Font.Path ELSE Embedded

\* C17: the text of a component whose fontPath cannot be loaded (missing,
\* unreadable or not a parsable font) is drawn with the global preset font,
\* and with the embedded font only when the global font is itself unavailable.
C17_FontFallbackOrder ==
  rendered # Nil =>
    \A k \in 1..Len(scene.Components) :
      (SceneComponent(k).Style.FontPath # "" /\ ~FontLoads(SceneComponent(k).Style.FontPath))
        => TextFonts(SceneComponent(k)) \subseteq {GlobalOrEmbedded}

HasFill(comp) == comp.Style.BackgroundColor # "" /\ parseHexColorAlpha(comp.Style.BackgroundColor).A > 0

HasBorder(comp) == comp.Style.BorderWidth > 0 /\ comp.Style.BorderColor # ""

HasText(comp) ==
  /\ comp.Data.Title # "" \/ Len(ItemsOf(comp)) > 0
  /\ comp.Width - 2 * comp.Padding > 0

ImageOps == {"drawScaled", "drawContain", "drawCover"}

\* The component names a background image that does not load.
ImageFails(comp) == comp.Style.BackgroundImage # "" /\ ~ImageLoads(comp.Style.BackgroundImage)

\* The canvas names a background image that does not load.
CanvasImageFails ==
  scene.Background.Type = "image" /\ scene.Background.Source # "" /\ ~ImageLoads(scene.Background.Source)

\* The component's fill, border and text were drawn, and no image.
DrawnWithoutImage(comp) ==
  /\ Ops(comp) \cap ImageOps = {}
  /\ HasFill(comp) => Ops(comp) \cap {"drawRect", "drawRoundedRect"} # {}
  /\ HasBorder(comp) => Ops(comp) \cap {"drawBorder", "drawRoundedBorder"} # {}
  /\ HasText(comp) =>
       /\ comp.Data.Title # "" => "title" \in Ops(comp)
       /\ Len(SelectSeq(StepsOf(comp), LAMBDA s : s.op = "item")) = Len(ItemsOf(comp))

\* C18: an image that cannot be loaded never makes RenderPreset return an
\* error: the canvas is filled with the background color when its image does
\* not load (the image is used only on a successful load), and a component
\* whose image does not load still gets its fill, border and text.
C18_MissingImageNeverFails ==
  rendered # Nil =>
    /\ renderErr = Nil
    /\ CanvasImageFails => Steps[1] = Step("draw.Draw", "", scene.Background.Color)
    /\ Steps[1].op = "drawScaled" => ImageLoads(scene.Background.Source)
    /\ \A k \in 1..Len(scene.Components) :
         ImageFails(SceneComponent(k)) => DrawnWithoutImage(SceneComponent(k))

\* A render whose canvas image and component image both failed to load, of a
\* component with a fill, a border and text.
C18_Witness ==
  /\ rendered # Nil
  /\ CanvasImageFails
  /\ \E k \in 1..Len(scene.Components) :
       /\ ImageFails(SceneComponent(k))
       /\ HasFill(SceneComponent(k)) /\ HasBorder(SceneComponent(k)) /\ HasText(SceneComponent(k))
       /\ {"drawRect", "drawBorder", "title", "item"} \subseteq Ops(SceneComponent(k))

\* ---------------------------------------------------------------- font properties
\* The custom path is empty, cannot be read, or does not parse as a font.
NoCustomFont(path) == path = "" \/ files[path] # "font"

\* C19: NewFontManager returns a font manager backed by the embedded font,
\* and no error, whenever the custom path is empty, cannot be read or does
\* not parse as a font; so NewRenderer never fails on the global font.
C19_NewFontManagerNeverFails ==
  /\ (fontMgr # Nil /\ NoCustomFont(fontMgr[1].path)) =>
       (fontMgr[1].err = Nil /\ fontMgr[1].fm = Some(FontManager(Embedded)))
  /\ renderErr = Nil

\* C20: GetFace uses the caller's dpi when dpi > 0 and 72 only when dpi <= 0.
C20_GetFaceKeepsPositiveDPI ==
  gotFace # Nil =>
    gotFace[1].face[1].DPI = (IF gotFace[1].dpi > 0 THEN gotFace[1].dpi ELSE 72)

Unset(f, v) == IF f \in StrFields THEN v = "" ELSE v = 0

\* The resolved entry has baked-in Defaults with a style and an override with
\* a style.
BothStyles(r) ==
  /\ CompOf(r).Defaults.Style # Nil
  /\ HasOverride(r.ID)
  /\ OverrideOf(r.ID).Style # Nil

\* C29: when the Defaults and the override of a component both carry a
\* style, a field set in the Defaults style and left empty or zero in the
\* override style keeps the Defaults style's value in the resolved style.
C29_DefaultsStyleUnderOverrideStyle ==
  resolved # Nil =>
    \A j \in 1..Len(resolved[1]) :
      BothStyles(resolved[1][j]) =>
        \A f \in StrFields \cup NumFields :
          (Unset(f, OverrideOf(resolved[1][j].ID).Style[1][f])
             /\ ~Unset(f, CompOf(resolved[1][j]).Defaults.Style[1][f]))
            => resolved[1][j].Style[f] = CompOf(resolved[1][j]).Defaults.Style[1][f]

\* ---------------------------------------------------------------- solid image properties
\* C22: with Config.Image nil, the solid-color image is exactly Config.Width
\* by Config.Height pixels when both are positive; 1280 and 720 stand in only
\* for a width or height that is not set (<= 0).
C22_SolidImageHasConfiguredSize ==
  (pc = "resolved" /\ config.Image = Nil /\ img # Nil) =>
    /\ img[1].Dx = (IF config.Width > 0 THEN config.Width ELSE 1280)
    /\ img[1].Dy = (IF config.Height > 0 THEN config.Height ELSE 720)

\* ---------------------------------------------------------------- field width properties
\* The product of a pair and a small number, not truncated.
WTimes(a, k) == <<a[1] * k + ((a[2] * k) \div Half), (a[2] * k) % Half>>

\* C27: in a container Generate returned nil for, no count or size field is
\* a wrapped value: the total frame count is the duration times 15, and the
\* movi LIST size, the idx1 size, the RIFF size and every idx1 offset equal
\* the byte counts of what was written, as unbounded integers.
C27_NoWrappedField ==
  Generated =>
    LET n    == Len(Tokens)
        movi == TagAt("movi")
        idx1 == TagAt("idx1")
    IN /\ Tokens[TagAt("avih") + 6].v = WTimes(DurationSec(config), fps)
       /\ Tokens[TagAt("strh") + 11].v = WTimes(DurationSec(config), fps)
       /\ Tokens[movi - 1].v = Span(movi, idx1 - 1)
       /\ Tokens[idx1 + 1].v = Span(idx1 + 2, n)
       /\ Tokens[2].v = Span(3, n)
       /\ \A j \in 0..(NumEntries - 1) :
            j < Cardinality(FrameTags) => Tokens[EntryAt(j) + 2].v = Span(movi, FrameTagOf(j) - 1)

\* ---------------------------------------------------------------- draw order properties
\* The place of a step inside its component: container fill, background
\* image, border, title, items.
OpRank(op) ==
  CASE op \in {"drawRect", "drawRoundedRect"} -> 1
    [] op \in ImageOps -> 2
    [] op \in {"drawBorder", "drawRoundedBorder"} -> 3
    [] op = "title" -> 4
    [] op = "item" -> 5
    [] OTHER -> 0

\* Position of a component in the resolved list; the canvas comes first.
ListPos(id) ==
  IF id = "" THEN 0 ELSE CHOOSE j \in 1..Len(resolved[1]) : resolved[1][j].ID = id

\* The steps at which a component's container fill was drawn.
FillAt(id) == {n \in 1..Len(Steps) : Steps[n].comp = id /\ OpRank(Steps[n].op) = 1}

\* Component b lies above component a: a higher zIndex, or the same and
\* declared later.
Above(b, a) ==
  \/ a.ZIndex < b.ZIndex
  \/ a.ZIndex = b.ZIndex /\ DeclPos(a.ID) < DeclPos(b.ID)

\* C24: RenderPreset paints the canvas background first, then each resolved
\* component completely and in list order, inside each component the
\* container fill, the background image, the border and the text in that
\* order; so the fill of a component with a higher zIndex (or declared later
\* at the same zIndex) is painted after everything of the components below.
C24_LayeredDrawOrder ==
  (resolved # Nil /\ rendered # Nil) =>
    /\ Steps[1].comp = "" /\ \A n \in 2..Len(Steps) : Steps[n].comp # ""
    /\ \A n \in 2..Len(Steps) : \E j \in 1..Len(resolved[1]) : resolved[1][j].ID = Steps[n].comp
    /\ \A m, n \in 2..Len(Steps) :
         m < n =>
           \/ ListPos(Steps[m].comp) < ListPos(Steps[n].comp)
           \/ /\ Steps[m].comp = Steps[n].comp
              /\ OpRank(Steps[m].op) <= OpRank(Steps[n].op)
    /\ \A j, k \in 1..Len(resolved[1]) :
         Above(resolved[1][k], resolved[1][j]) =>
           \A m \in 1..Len(Steps), n \in FillAt(resolved[1][k].ID) :
             Steps[m].comp = resolved[1][j].ID => m < n

\* Two components over the same rectangle, the first declared with the
\* higher zIndex: its fill was painted after the fill and the title of the
\* one declared last.
C24_Witness ==
  /\ resolved # Nil /\ rendered # Nil
  /\ Len(Comps) = 3
  /\ Comps[1].ZIndex > Comps[3].ZIndex
  /\ <<Comps[1].X, Comps[1].Y>> = <<Comps[3].X, Comps[3].Y>>
  /\ \E a, b, c \in 1..Len(Steps) :
       /\ a < b /\ b < c
       /\ Steps[a].comp = Comps[3].ID /\ OpRank(Steps[a].op) = 1
       /\ Steps[b].comp = Comps[3].ID /\ Steps[b].op = "title"
       /\ Steps[c].comp = Comps[1].ID /\ OpRank(Steps[c].op) = 1

\* ---------------------------------------------------------------- sampling properties
\* The source points a scaling call sampled, one for each destination pixel
\* of its loops.
Sampled ==
  {CASE Call.name = "drawScaled" -> ScaledSample(Call.src, Call.fx[k], Call.fy[m])
     [] Call.name = "drawContain" -> ContainSample(Call.src, Call.fx[k], Call.fy[m])
     [] OTHER -> CoverSample(Call.src, Call.fx[k], Call.fy[m]) :
     k \in 1..Len(Call.fx), m \in 1..Len(Call.fy)}

\* C25: every source coordinate drawScaled, drawContain or drawCover samples
\* lies within the source image's bounds on both axes.
C25_SamplesInsideSource ==
  (Called("drawScaled") \/ Called("drawContain") \/ Called("drawCover")) =>
    \A p \in Sampled : In(p[1], p[2], Call.src.Rect)

\* A source stretched over a wider destination whose width does not divide
\* evenly: the last column of the source was sampled for the last pixel.
C25_Witness ==
  /\ Called("drawScaled")
  /\ Dx(Call.src.Rect) = MaxSourceDim /\ Dx(DstRect) = CanvasSize
  /\ Call.fx[CanvasSize] = MaxSourceDim - 1
  /\ Point(MaxSourceDim - 1, Dy(Call.src.Rect) - 1) \in Sampled
  /\ blended = Points(DstRect)

\* ---------------------------------------------------------------- placement properties
\* The padded area of the component: [X + padding, X + Width - padding).
AreaLeft == wrapCall.comp.X + wrapCall.comp.Padding

AreaRight == wrapCall.comp.X + wrapCall.comp.Width - wrapCall.comp.Padding

\* The width the text was wrapped to.
WrappedTo ==
  (wrapCall.comp.Width - 2 * wrapCall.comp.Padding)
    - (IF wrapCall.type = "title" THEN 0 ELSE Indent(wrapCall.type, wrapCall.comp.Style.FontSize))

LineWidth(pl) == Ceil(MeasureString(wrapCall.face, pl.line))

\* C28: every wrapped line no wider than the width it was wrapped to is drawn
\* with [x, x + width) inside the padded area, for each alignment, for first
\* lines and for the indented continuation lines of bullet and numbered items.
C28_LinesInsidePaddedArea ==
  wrapLines # Nil =>
    \A k \in 1..Len(wrapLines[1]) :
      LineWidth(wrapLines[1][k]) <= WrappedTo =>
        /\ AreaLeft <= wrapLines[1][k].x
        /\ wrapLines[1][k].x + LineWidth(wrapLines[1][k]) <= AreaRight

\* ---------------------------------------------------------------- loader properties

\* C26: the temp directory exists exactly from a successful return of
\* LoadPreset to the call of the returned cleanup; when LoadPreset returns an
\* error the directory is already gone and the returned cleanup does nothing;
\* and nothing is ever written outside the temp directory.
C26_TempDirLifetime ==
  /\ escaped = {}
  /\ loadPc = "start" => tmpDir = Nil
  /\ loadPc = "returned" =>
       /\ (loadRet[1].err = Nil) <=> (tmpDir # Nil)
       /\ loadRet[1].err # Nil => loadRet[1].cleanup = "noop" /\ loadRet[1].preset = Nil
       /\ tmpDir # Nil => \A e \in tmpDir[1] : InsideDir(e.path, TempDir)
  /\ loadPc = "cleaned" => tmpDir = Nil

\* LoadPreset met a zip-slip entry after it had extracted a legal one, and
\* returned with the directory removed.
C26_Witness ==
  /\ loadPc = "returned"
  /\ loadRet[1].err = Some("illegal path in zip")
  /\ Len(zipFile.entries) = 2
  /\ InsideDir(JoinPath(TempDir, zipFile.entries[1].Name), TempDir)
  /\ ~InsideDir(JoinPath(TempDir, zipFile.entries[2].Name), TempDir)
  /\ tmpDir = Nil

\* LoadPreset succeeded and the caller removed the directory.
C26_WitnessCleaned ==
  /\ loadPc = "cleaned" /\ loadRet[1].err = Nil /\ tmpDir = Nil

\* ---------------------------------------------------------------- preview properties

\* The contents the editors can hold that are valid JSON and render.
RenderableContents ==
  {Content(rev, TRUE, TRUE) : rev \in 0..MaxEdits}

\* C23: once the editors keep a content that is valid JSON (and that the
\* server can render), the preview eventually shows the image rendered from
\* that content, also when it was typed while an earlier render was in flight.
C23_FinalContentRendered ==
  \A c \in RenderableContents :
    <>[](editorValue = c) => <>(previewImg.src = Some(c))

\* ---------------------------------------------------------------- server properties

\* C30: a render request that reads the temp copy of the uploaded asset reads
\* the whole asset: never a missing, truncated or partly written file, whatever
\* the other request does to the same file meanwhile.
C30_ReadsWholeCopy ==
  \A r \in Reqs : seen[r] # Nil => seen[r] = Some(WholeCopy)

====
